---- MODULE Spec2Model ----
(***************************************************************************)
(* Model of the recommendation engine of src/ai-engine/main.py:            *)
(* training (train_recommendation_models), the two recommendation models   *)
(* (DummyRecommendationModel, ContentBasedRecommendationModel) and the     *)
(* handlers submit_feedback, get_recommendations, update_user_preferences, *)
(* get_similar_destinations and get_trending_destinations.                 *)
(*                                                                         *)
(* Handlers.  A handler runs alone between two awaits, so each of its      *)
(* store or cache calls is one step; a request is answered in the step of  *)
(* its last call.  The cache is redis: one entry per user, or none.        *)
(*                                                                         *)
(* Numbers.  Scores and popularity are floats in the source.  The model    *)
(* keeps them in fixed point, in hundredths: 0.1 is 10, 0.05 is 5, the     *)
(* fallback score 0.95 is 95.  Float rounding is not modelled.             *)
(*                                                                         *)
(* Similarity.  cosine_similarity over TF-IDF vectors is not computed.     *)
(* What the model keeps of it: the similarity of a destination whose text  *)
(* shares no term with the query text is 0 (disjoint supports), and it is  *)
(* positive otherwise (TF-IDF weights of present terms are positive); the  *)
(* positive value is drawn from SimLevels.                                 *)
(*                                                                         *)
(* Document store.  A call to the store that raises has had no effect; the *)
(* handler then answers 500 (its except branch).  update_one with $inc is  *)
(* applied by the store to one document in one step.                       *)
(*                                                                         *)
(* Tags, terms and activity lists are sets: the source reads them through  *)
(* set() and through the bag of words of the vectorizer.                   *)
(*                                                                         *)
(* Other programs.  The websocket feed of the live-data engine             *)
(* (src/services/live-data-engine/main.py) and the event log of the        *)
(* pipeline tracker (src/pipeline-tracker.py) have their own variables and *)
(* specifications; they share no state with the recommendation engine.     *)
(***************************************************************************)
EXTENDS Integers, Sequences, FiniteSets, Bags, TLC

VARIABLES
    destinations,          \* db.destinations: the sequence of destination documents
    recommendation_model,  \* the module global recommendation_model
    rec_call,              \* the recommend call in progress (its arguments), or NoCall
    rec_result,            \* what that call returned
    user_feedback,         \* db.user_feedback: a bag of feedback documents
    pc,                    \* per handler task of submit_feedback: where it stands
    req,                   \* per handler task: the FeedbackRequest it serves
    responses,             \* the HTTP responses submit_feedback has sent (a bag)
    db_available,          \* whether the document store answers (else its calls raise)
    user_preferences,      \* db.user_preferences: per user the stored document, or NoProfile
    user_visits,           \* db.user_visits: the sequence of visit documents
    cache,                 \* redis: per user the entry under "recommendations:<user>"
    svc,                   \* per handler task of the other endpoints: its request,
                           \* its locals and where it stands
    reply,                 \* the last HTTP response those endpoints have sent
    served,                \* the requests those endpoints have received
    training,              \* train_recommendation_models: where it stands, what it read
    active_connections,    \* live-data engine: manager.active_connections
    feed,                  \* live-data engine: per websocket, where its handler stands
    log_file,              \* pipeline tracker: the content of pipeline-events.json
    status_file,           \* pipeline tracker: the content of current-pipeline-status.json
    clock                  \* pipeline tracker: datetime.utcnow(), in ticks

serviceVars == <<user_preferences, user_visits, cache, svc, reply, served, training>>

\* The state of the live-data engine and of the pipeline tracker.
otherPrograms == <<active_connections, feed, log_file, status_file, clock>>

vars == <<destinations, recommendation_model, rec_call, rec_result,
          user_feedback, pc, req, responses, db_available,
          user_preferences, user_visits, cache, svc, reply, served, training,
          active_connections, feed, log_file, status_file, clock>>

------------------------------------------------------------------------------
(* Bounds *)

NumDest == 2       \* longest corpus
MaxLimit == 3      \* largest limit a caller passes
NumTasks == 2      \* concurrent submit_feedback handler tasks
MaxFeedback == 2   \* feedback requests per behaviour
MaxRequests == 2   \* requests to the other endpoints per behaviour
MaxTrainings == 2  \* runs of train_recommendation_models per behaviour
NumSockets == 3    \* websockets that connect to the live feed
MaxFrames == 1     \* frames of live data sent to one websocket
MaxLogged == 102   \* the time of the last log_event call (the log keeps 100 events)

------------------------------------------------------------------------------
(* Data *)

Min(a, b) == IF a < b THEN a ELSE b

Max(a, b) == IF a > b THEN a ELSE b

IdPool == <<"paris_france", "cusco_peru", "bali_indonesia", "oslo_norway">>

MissingId == "atlantis"

\* Destination documents as the data loader stores them (DestinationProfile),
\* without the id, which the position in the corpus gives.
DestinationPool ==
    { [name |-> "A", climate |-> "temperate", budget_level |-> "medium",
       activity_types |-> {"hiking", "food"}, interests |-> {},
       description |-> {"mountain", "trails"}, popularity_score |-> 300],
      [name |-> "B", climate |-> "tropical", budget_level |-> "low",
       activity_types |-> {"beach"}, interests |-> {},
       description |-> {"sandy", "coast"}, popularity_score |-> 100],
      [name |-> "C", climate |-> "temperate", budget_level |-> "low",
       activity_types |-> {"food"}, interests |-> {"history"},
       description |-> {"old", "town"}, popularity_score |-> 100],
      [name |-> "D", climate |-> "temperate", budget_level |-> "high",
       activity_types |-> {}, interests |-> {"history"},
       description |-> {"museum"}, popularity_score |-> 0] }

WithId(p, i) ==
    [id |-> IdPool[i], name |-> p.name, climate |-> p.climate,
     budget_level |-> p.budget_level, activity_types |-> p.activity_types,
     interests |-> p.interests, description |-> p.description,
     popularity_score |-> p.popularity_score]

\* Every corpus of at most NumDest documents, ids distinct.
Corpora ==
    UNION { { [i \in 1..n |-> WithId(f[i], i)] : f \in [1..n -> DestinationPool] }
            : n \in 0..NumDest }

\* UserPreferences, the fields recommend reads.
PreferencePool ==
    { [budget_range |-> "medium", activity_types |-> {"hiking"},
       interests |-> {}, travel_style |-> "balanced"],
      [budget_range |-> "medium", activity_types |-> {},
       interests |-> {}, travel_style |-> "balanced"],
      [budget_range |-> "low", activity_types |-> {"hiking", "food"},
       interests |-> {"history"}, travel_style |-> "balanced"],
      [budget_range |-> "high", activity_types |-> {"beach"},
       interests |-> {}, travel_style |-> "luxury"] }

ExclusionSets == SUBSET { IdPool[i] : i \in 1..NumDest }

\* The limits of a recommend call: from a negative one to one more than
\* the static list of the fallback model is long.
Limits == (-1)..(MaxLimit + 1)

SimLevels == {10, 100}

NoCall == [kind |-> "none"]

NoModel == [kind |-> "none", destinations |-> <<>>]

------------------------------------------------------------------------------
(* The recommendation models *)

DummyRecommendationModel == [kind |-> "dummy", destinations |-> <<>>]

\* The terms of a destination's text and of the query text.
DestinationTerms(dest) == dest.description \cup dest.activity_types \cup dest.interests

\* user_preference_vectorizer = None
NoVectorizer == [fitted |-> FALSE, vocabulary |-> {}]

\* TfidfVectorizer.fit(texts): the vocabulary is the terms of the texts.
Fit(texts) ==
    [fitted |-> TRUE, vocabulary |-> UNION { texts[i] : i \in 1..Len(texts) }]

\* vectorizer.transform(texts): per text, its terms that are in the vocabulary.
Transform(vectorizer, texts) ==
    [i \in 1..Len(texts) |-> texts[i] \cap vectorizer.vocabulary]

\* The text of each destination: description, activity types, interests.
DestinationTexts(dests) == [i \in 1..Len(dests) |-> DestinationTerms(dests[i])]

\* __init__: the object holds the destinations and the vectorizer it is given
\* and the vectors it computes from them.
ContentBasedRecommendationModel(dests, vectorizer) ==
    [kind |-> "content", destinations |-> dests, vectorizer |-> vectorizer,
     destination_vectors |-> Transform(vectorizer, DestinationTexts(dests))]

sample_destinations ==
    << [id |-> "paris_france", name |-> "Paris", score |-> 95,
        reason |-> <<"Based on your interest in culture and history">>],
       [id |-> "tokyo_japan", name |-> "Tokyo", score |-> 90,
        reason |-> <<"Perfect blend of modern and traditional experiences">>],
       [id |-> "new_york_usa", name |-> "New York", score |-> 88,
        reason |-> <<"Vibrant city life and diverse cultural offerings">>] >>

\* xs[:limit] of Python: a negative limit counts from the end.
SliceOffByOne(xs, limit) ==
    SubSeq(xs, 1, IF limit >= 0 THEN Min(limit + 1, Len(xs))
                                ELSE Max(Len(xs) + limit, 0))

Slice(xs, limit) ==
    SubSeq(xs, 1, IF limit >= 0 THEN Min(limit, Len(xs))
                                ELSE Max(Len(xs) + limit, 0))

DummyRecommendNothing(limit) == <<>>

\* The static list cut from its end.
DummyRecommendLastFirst(limit) ==
    Slice([i \in 1..Len(sample_destinations) |->
              sample_destinations[Len(sample_destinations) + 1 - i]], limit)

\* DummyRecommendationModel.recommend: preferences and exclusions are not read.
DummyRecommend(limit) == Slice(sample_destinations, limit)

UserTerms(prefs) == prefs.activity_types \cup prefs.interests \cup {prefs.travel_style}

\* The similarity vectors cosine_similarity can return for a query.
SimilarityScores(dests, prefs) ==
    { s \in [1..Len(dests) -> SimLevels \cup {0}] :
        \A i \in 1..Len(dests) :
            s[i] = 0 <=> DestinationTerms(dests[i]) \cap UserTerms(prefs) = {} }

BudgetBoost == 10

ActivityBoost == 5

IsExcludedNever(dest, exclude_visited) == FALSE

IsExcluded(dest, exclude_visited) ==
    exclude_visited # {} /\ dest.id \in exclude_visited

BoostedScoreAlwaysBudget(sim, dest, prefs) ==
    sim + BudgetBoost
        + Cardinality(dest.activity_types \cap prefs.activity_types) * ActivityBoost

BoostedScore(sim, dest, prefs) ==
    sim + (IF dest.budget_level = prefs.budget_range THEN BudgetBoost ELSE 0)
        + Cardinality(dest.activity_types \cap prefs.activity_types) * ActivityBoost

GenericReason == "Highly rated destination with diverse experiences"

GenerateReasonGenericLast(destination, prefs) ==
    (IF destination.activity_types \cap prefs.activity_types # {}
     THEN <<"Matches your interest in">> ELSE <<>>)
    \o (IF destination.interests \cap prefs.interests # {}
        THEN <<"Great for enthusiasts">> ELSE <<>>)
    \o (IF destination.budget_level = prefs.budget_range
        THEN <<"Fits your budget">> ELSE <<>>)
    \o <<GenericReason>>

\* _generate_reason: the list of reasons that "; " joins.  A reason stands for
\* its text without the tags and the budget it names.
GenerateReason(destination, prefs) ==
    LET reasons ==
          (IF destination.activity_types \cap prefs.activity_types # {}
           THEN <<"Matches your interest in">> ELSE <<>>)
          \o (IF destination.interests \cap prefs.interests # {}
              THEN <<"Great for enthusiasts">> ELSE <<>>)
          \o (IF destination.budget_level = prefs.budget_range
              THEN <<"Fits your budget">> ELSE <<>>)
    IN  IF reasons = <<>> THEN <<GenericReason>> ELSE reasons

Recommendation(dest, score, reason) ==
    [id |-> dest.id, name |-> dest.name, score |-> score, reason |-> reason]

\* The loop of recommend: the candidates in corpus order, each with its score.
RECURSIVE Candidates(_, _, _, _)
Candidates(dests, sims, prefs, exclude_visited) ==
    IF dests = <<>> THEN <<>>
    ELSE LET n == Len(dests)
             rest == Candidates(SubSeq(dests, 1, n - 1), sims, prefs, exclude_visited)
         IN  IF IsExcluded(dests[n], exclude_visited) THEN rest
             ELSE Append(rest, Recommendation(dests[n],
                                   BoostedScore(sims[n], dests[n], prefs),
                                   GenerateReason(dests[n], prefs)))

\* x placed in the descending list s behind every entry that does not score lower.
RECURSIVE InsertByScore(_, _)
InsertByScore(s, x) ==
    IF s = <<>> THEN <<x>>
    ELSE IF Head(s).score >= x.score THEN <<Head(s)>> \o InsertByScore(Tail(s), x)
    ELSE <<x>> \o s

RECURSIVE InsertByScoreBeforeTies(_, _)
InsertByScoreBeforeTies(s, x) ==
    IF s = <<>> THEN <<x>>
    ELSE IF Head(s).score > x.score
         THEN <<Head(s)>> \o InsertByScoreBeforeTies(Tail(s), x)
    ELSE <<x>> \o s

RECURSIVE SortByScoreTiesReversed(_)
SortByScoreTiesReversed(recs) ==
    IF recs = <<>> THEN <<>>
    ELSE InsertByScoreBeforeTies(
             SortByScoreTiesReversed(SubSeq(recs, 1, Len(recs) - 1)), recs[Len(recs)])

\* recommendations.sort(key=score, reverse=True): descending and stable.
RECURSIVE SortByScore(_)
SortByScore(recs) ==
    IF recs = <<>> THEN <<>>
    ELSE InsertByScore(SortByScore(SubSeq(recs, 1, Len(recs) - 1)), recs[Len(recs)])

ContentRecommend(model, sims, prefs, exclude_visited, limit) ==
    Slice(SortByScore(Candidates(model.destinations, sims, prefs, exclude_visited)),
          limit)

\* train_recommendation_models: the model it leaves in recommendation_model;
\* fails is an exception raised past the empty-corpus check (clustering,
\* fitting, saving).
TrainedModel(corpus, fails) ==
    IF corpus = <<>> THEN DummyRecommendationModel
    ELSE IF fails THEN DummyRecommendationModel
    ELSE ContentBasedRecommendationModel(corpus, Fit(DestinationTexts(corpus)))

------------------------------------------------------------------------------
(* Training and recommend *)

Tasks == 1..NumTasks

NoRequest == [destination_id |-> "", rating |-> 0]

NoFeedbackState ==
    /\ user_feedback = EmptyBag
    /\ pc = [t \in Tasks |-> "idle"]
    /\ req = [t \in Tasks |-> NoRequest]
    /\ responses = EmptyBag
    /\ db_available = TRUE

Users == {"u1", "u2"}

NoProfile == [user_id |-> ""]

NoEntry == [ttl |-> 0]

NoReply == [request |-> [op |-> "none"], status |-> 0, body |-> <<>>]

IdleTask ==
    [pc |-> "idle", request |-> [op |-> "none"], user_prefs |-> NoProfile,
     visited |-> {}]

NotTraining ==
    [pc |-> "idle", corpus |-> <<>>, user_preference_vectorizer |-> NoVectorizer,
     runs |-> 0]

\* The websockets that may connect to /ws/live-feed.
Sockets == 1..NumSockets

\* A websocket that has not connected yet.
NoHandler == [pc |-> "none", frames |-> 0, ended_by |-> ""]

\* Python's None and the empty dict, as the details of an event.
None == [given |-> FALSE, items |-> {}]

EmptyDict == [given |-> TRUE, items |-> {}]

\* The event log keeps this many events.
MaxEvents == 100

\* The event a call of log_event at time now builds.
Event(now, event_type, message, details) ==
    [timestamp |-> now, type |-> event_type, message |-> message,
     details |-> IF details = None \/ details.items = {} THEN EmptyDict ELSE details]

\* The status update_current_status writes: the details as they were passed.
CurrentStatus(now, event_type, message, details) ==
    [last_update |-> now,
     current_event |-> [type |-> event_type, message |-> message, details |-> details]]

\* PipelineTracker(): initialize_logs has written an empty log and logged
\* TRACKER_INITIALIZED at time 0.
TrackerInitialized ==
    /\ log_file = [events |-> << Event(0, "TRACKER_INITIALIZED",
                                       "Pipeline tracking system started", None) >>]
    /\ status_file = CurrentStatus(0, "TRACKER_INITIALIZED",
                                   "Pipeline tracking system started", None)
    /\ clock = 1

\* The live-data engine has no connection; the tracker is constructed.
OtherProgramsNotStarted ==
    /\ active_connections = <<>>
    /\ feed = [w \in Sockets |-> NoHandler]
    /\ TrackerInitialized

NoServiceState ==
    /\ user_preferences = [u \in Users |-> NoProfile]
    /\ user_visits = <<>>
    /\ cache = [u \in Users |-> NoEntry]
    /\ svc = [t \in Tasks |-> IdleTask]
    /\ reply = NoReply
    /\ served = 0
    /\ training = NotTraining
    /\ OtherProgramsNotStarted

InitRecommend ==
    /\ destinations \in Corpora
    /\ recommendation_model = NoModel
    /\ rec_call = NoCall
    /\ rec_result = <<>>
    /\ NoFeedbackState
    /\ NoServiceState

\* initialize_ml_models with no saved model: train_recommendation_models runs.
TrainRecommendationModels ==
    /\ recommendation_model = NoModel
    /\ \E fails \in BOOLEAN :
           recommendation_model' = TrainedModel(destinations, fails)
    /\ UNCHANGED <<destinations, rec_call, rec_result,
                   user_feedback, pc, req, responses, db_available, serviceVars,
                   otherPrograms>>

\* recommendation_model.recommend(user_preferences, exclude_visited, limit)
Recommend ==
    /\ recommendation_model.kind # "none"
    /\ rec_call = NoCall
    /\ \E prefs \in PreferencePool, exclude_visited \in ExclusionSets, limit \in Limits :
         \/ /\ recommendation_model.kind = "dummy"
            /\ rec_call' = [kind |-> "recommend", prefs |-> prefs,
                            exclude_visited |-> exclude_visited, limit |-> limit,
                            sims |-> <<>>]
            /\ rec_result' = DummyRecommend(limit)
         \/ /\ recommendation_model.kind = "content"
            /\ \E sims \in SimilarityScores(recommendation_model.destinations, prefs) :
                 /\ rec_call' = [kind |-> "recommend", prefs |-> prefs,
                                 exclude_visited |-> exclude_visited, limit |-> limit,
                                 sims |-> sims]
                 /\ rec_result' = ContentRecommend(recommendation_model, sims, prefs,
                                                   exclude_visited, limit)
    /\ UNCHANGED <<destinations, recommendation_model,
                   user_feedback, pc, req, responses, db_available, serviceVars,
                   otherPrograms>>

\* The caller has taken the list.
RecommendReturn ==
    /\ rec_call # NoCall
    /\ rec_call' = NoCall
    /\ rec_result' = <<>>
    /\ UNCHANGED <<destinations, recommendation_model,
                   user_feedback, pc, req, responses, db_available, serviceVars,
                   otherPrograms>>

NextRecommend == TrainRecommendationModels \/ Recommend \/ RecommendReturn

SpecRecommend == InitRecommend /\ [][NextRecommend]_vars

------------------------------------------------------------------------------
(* submit_feedback *)

\* FeedbackRequest: the fields the handler reads (user_id, feedback_type and
\* comments are stored and never read).  rating is a float with no validator.
Ratings == 0..6

FeedbackTargets == {IdPool[1], IdPool[2], MissingId}

FeedbackRequests == [destination_id : FeedbackTargets, rating : Ratings]

\* The corpora submit_feedback is run against: NumDest documents, the first any
\* document of the pool, the others B.
FeedbackCorpora ==
    { c \in Corpora : Len(c) = NumDest /\ \A i \in 2..Len(c) : c[i].name = "B" }

Response(fb, status) ==
    [destination_id |-> fb.destination_id, rating |-> fb.rating, status |-> status]

\* The requests received so far: answered, or still with a handler task.
Received == BagCardinality(responses) + Cardinality({ t \in Tasks : pc[t] # "idle" })

\* The $inc the handler sends for a rating; 0 where it sends none.
PopularityDeltaStrict(rating) ==
    IF rating > 4 THEN 10 ELSE IF rating < 2 THEN -5 ELSE 0

PopularityDelta(rating) ==
    IF rating >= 4 THEN 10 ELSE IF rating <= 2 THEN -5 ELSE 0

\* The popularity the data loader stored for this document.
InitialPopularity(doc) ==
    (CHOOSE p \in DestinationPool : p.name = doc.name).popularity_score

Matching(dests, id) == { i \in 1..Len(dests) : dests[i].id = id }

\* A write of a value computed from the popularity read when the corpus was loaded.
UpdateOneFromStaleRead(dests, id, delta) ==
    IF Matching(dests, id) = {} THEN dests
    ELSE LET m == CHOOSE i \in Matching(dests, id) :
                      \A j \in Matching(dests, id) : i <= j
         IN  [dests EXCEPT ![m].popularity_score = InitialPopularity(dests[m]) + delta]

\* An increment that keeps the popularity at 0 or above.
UpdateOneIncFloored(dests, id, delta) ==
    IF Matching(dests, id) = {} THEN dests
    ELSE LET m == CHOOSE i \in Matching(dests, id) :
                      \A j \in Matching(dests, id) : i <= j
         IN  [dests EXCEPT ![m].popularity_score = Max(0, @ + delta)]

\* An increment sent with upsert=True: no matching document creates one.
UpdateOneIncUpsert(dests, id, delta) ==
    IF Matching(dests, id) = {}
    THEN Append(dests, [id |-> id, popularity_score |-> delta])
    ELSE LET m == CHOOSE i \in Matching(dests, id) :
                      \A j \in Matching(dests, id) : i <= j
         IN  [dests EXCEPT ![m].popularity_score = @ + delta]

\* db.destinations.update_one({"id": id}, {"$inc": {"popularity_score": delta}}):
\* the first matching document is incremented in the store, in one step; no
\* matching document is no error.
UpdateOneInc(dests, id, delta) ==
    IF Matching(dests, id) = {} THEN dests
    ELSE LET m == CHOOSE i \in Matching(dests, id) :
                      \A j \in Matching(dests, id) : i <= j
         IN  [dests EXCEPT ![m].popularity_score = @ + delta]

InitFeedback ==
    /\ destinations \in FeedbackCorpora
    /\ recommendation_model = NoModel
    /\ rec_call = NoCall
    /\ rec_result = <<>>
    /\ NoFeedbackState
    /\ NoServiceState

\* The document store goes away or comes back.
DbChange ==
    /\ db_available' = ~db_available
    /\ UNCHANGED <<destinations, recommendation_model, rec_call, rec_result,
                   user_feedback, pc, req, responses, serviceVars, otherPrograms>>

\* submit_feedback going on to the popularity update with the document not
\* yet stored.
StoreFeedbackLater(t) ==
    /\ pc[t] = "idle"
    /\ Received < MaxFeedback
    /\ \E fb \in FeedbackRequests :
         IF db_available
         THEN /\ req' = [req EXCEPT ![t] = fb]
              /\ pc' = [pc EXCEPT ![t] = "update"]
              /\ UNCHANGED <<user_feedback, responses>>
         ELSE /\ responses' = responses (+) SetToBag({Response(fb, 500)})
              /\ UNCHANGED <<user_feedback, req, pc>>
    /\ UNCHANGED <<destinations, recommendation_model, rec_call, rec_result,
                   db_available, serviceVars, otherPrograms>>

\* submit_feedback up to the end of "await db.user_feedback.insert_one": the
\* document is stored, or the call raises and the handler answers 500.
StoreFeedback(t) ==
    /\ pc[t] = "idle"
    /\ Received < MaxFeedback
    /\ \E fb \in FeedbackRequests :
         IF db_available
         THEN /\ user_feedback' = user_feedback (+) SetToBag({fb})
              /\ req' = [req EXCEPT ![t] = fb]
              /\ pc' = [pc EXCEPT ![t] = "update"]
              /\ UNCHANGED responses
         ELSE /\ responses' = responses (+) SetToBag({Response(fb, 500)})
              /\ UNCHANGED <<user_feedback, req, pc>>
    /\ UNCHANGED <<destinations, recommendation_model, rec_call, rec_result,
                   db_available, serviceVars, otherPrograms>>

\* submit_feedback from there to its return, deleting every cache entry when
\* it answers.
UpdatePopularityInvalidating(t) ==
    /\ pc[t] = "update"
    /\ IF PopularityDelta(req[t].rating) # 0 /\ ~db_available
       THEN /\ responses' = responses (+) SetToBag({Response(req[t], 500)})
            /\ UNCHANGED destinations
       ELSE /\ destinations' = UpdateOneInc(destinations, req[t].destination_id,
                                            PopularityDelta(req[t].rating))
            /\ responses' = responses (+) SetToBag({Response(req[t], 200)})
    /\ pc' = [pc EXCEPT ![t] = "idle"]
    /\ req' = [req EXCEPT ![t] = NoRequest]
    /\ cache' = [u \in DOMAIN cache |-> [ttl |-> 0]]
    /\ UNCHANGED <<recommendation_model, rec_call, rec_result, user_feedback,
                   db_available, user_preferences, user_visits, svc, reply, served,
                   training, otherPrograms>>

\* submit_feedback from there to its return: the update_one the rating asks
\* for, if any, then the answer.
UpdatePopularity(t) ==
    /\ pc[t] = "update"
    /\ IF PopularityDelta(req[t].rating) # 0 /\ ~db_available
       THEN /\ responses' = responses (+) SetToBag({Response(req[t], 500)})
            /\ UNCHANGED destinations
       ELSE /\ destinations' = UpdateOneInc(destinations, req[t].destination_id,
                                            PopularityDelta(req[t].rating))
            /\ responses' = responses (+) SetToBag({Response(req[t], 200)})
    /\ pc' = [pc EXCEPT ![t] = "idle"]
    /\ req' = [req EXCEPT ![t] = NoRequest]
    /\ UNCHANGED <<recommendation_model, rec_call, rec_result, user_feedback,
                   db_available, serviceVars, otherPrograms>>

NextFeedback ==
    \/ DbChange
    \/ \E t \in Tasks : StoreFeedback(t)
    \/ \E t \in Tasks : UpdatePopularity(t)

SpecFeedback == InitFeedback /\ [][NextFeedback]_vars

------------------------------------------------------------------------------
(* Claims about recommend, checked under SpecRecommend *)

InCall == rec_call.kind = "recommend"

ContentCall == InCall /\ recommendation_model.kind = "content"

DummyCall == InCall /\ recommendation_model.kind = "dummy"

ResultIds == { rec_result[i].id : i \in 1..Len(rec_result) }

\* The place in the corpus enumeration of the destination with this id.
CorpusIndex(id) ==
    CHOOSE k \in 1..Len(recommendation_model.destinations) :
        recommendation_model.destinations[k].id = id

Eligible ==
    { k \in 1..Len(recommendation_model.destinations) :
        recommendation_model.destinations[k].id \notin rec_call.exclude_visited }

\* C1 as stated: whatever model is active, no destination whose id is in the
\* exclusion set appears in the list recommend returns.
C1_NoExcludedAnyModel ==
    InCall => ResultIds \cap rec_call.exclude_visited = {}

\* C1 as amended: when the fitted content-based model is active, no destination
\* whose id is in the exclusion set appears in the list recommend returns.
C1_NoExcludedContentModel ==
    ContentCall => ResultIds \cap rec_call.exclude_visited = {}

C1_Witness ==
    /\ ContentCall
    /\ rec_result # <<>>
    /\ \E k \in 1..Len(recommendation_model.destinations) :
           recommendation_model.destinations[k].id \in rec_call.exclude_visited

\* C2: the list the content-based recommend returns is in descending order of
\* final score, and of two destinations with the same final score the one that
\* comes first in the corpus enumeration comes first in the list.
C2_SortedStable ==
    ContentCall =>
        \A i, j \in 1..Len(rec_result) :
            i < j =>
                /\ rec_result[i].score >= rec_result[j].score
                /\ rec_result[i].score = rec_result[j].score
                       => CorpusIndex(rec_result[i].id) < CorpusIndex(rec_result[j].id)

C2_Witness ==
    /\ ContentCall
    /\ Len(rec_result) >= 2
    /\ rec_result[1].score = rec_result[2].score
    /\ rec_call.sims[CorpusIndex(rec_result[1].id)]
           # rec_call.sims[CorpusIndex(rec_result[2].id)]

\* The list the call in progress would return were its limit the corpus size.
FullRanking ==
    ContentRecommend(recommendation_model, rec_call.sims, rec_call.prefs,
                     rec_call.exclude_visited, Len(recommendation_model.destinations))

\* C3: for a limit >= 0 recommend returns exactly the first
\* min(limit, number of eligible destinations) entries of the full sorted
\* candidate list: nothing for limit 0, every eligible candidate for a limit
\* that is at least their number.
C3_TruncatedToLimit ==
    (ContentCall /\ rec_call.limit >= 0) =>
        /\ Len(rec_result) = Min(rec_call.limit, Cardinality(Eligible))
        /\ Len(FullRanking) = Cardinality(Eligible)
        /\ rec_result = SubSeq(FullRanking, 1, Len(rec_result))
        /\ rec_call.limit = 0 => rec_result = <<>>
        /\ rec_call.limit >= Cardinality(Eligible)
               => { rec_result[i].id : i \in 1..Len(rec_result) }
                    = { recommendation_model.destinations[k].id : k \in Eligible }

C3_Witness ==
    /\ ContentCall
    /\ rec_call.limit >= 1
    /\ rec_call.limit < Cardinality(Eligible)
    /\ Len(rec_result) = rec_call.limit

\* The scenario of the spec: corpus A (medium; hiking, food), B (low; beach),
\* preferences budget medium and activity hiking, nothing excluded.
C4_Scenario ==
    /\ ContentCall
    /\ Len(recommendation_model.destinations) = 2
    /\ recommendation_model.destinations[1].name = "A"
    /\ recommendation_model.destinations[2].name = "B"
    /\ rec_call.prefs.budget_range = "medium"
    /\ rec_call.prefs.activity_types = {"hiking"}
    /\ rec_call.exclude_visited = {}
    /\ rec_call.limit >= 2

\* C4: the final score of a destination is its similarity, plus 0.10 exactly
\* when its budget tier equals the user's budget range, plus 0.05 for every
\* activity tag it shares with the user; in the scenario A gets both boosts,
\* B gets none and A ranks above B.
C4_BoostedScore ==
    /\ ContentCall =>
         \A i \in 1..Len(rec_result) :
            LET k == CorpusIndex(rec_result[i].id)
                dest == recommendation_model.destinations[k]
                budget == dest.budget_level = rec_call.prefs.budget_range
                shared == dest.activity_types \cap rec_call.prefs.activity_types
                base == rec_call.sims[k] + 5 * Cardinality(shared)
            IN  /\ budget => rec_result[i].score = base + 10
                /\ ~budget => rec_result[i].score = base
    /\ C4_Scenario =>
         /\ Len(rec_result) = 2
         /\ rec_result[1].name = "A"
         /\ rec_result[1].score = rec_call.sims[1] + 10 + 5
         /\ rec_result[2].name = "B"
         /\ rec_result[2].score = rec_call.sims[2]
         /\ rec_call.sims[2] = 0

C4_Witness == C4_Scenario /\ rec_result # <<>>

\* C10 as stated: with an empty corpus at training time recommend (called
\* with a limit >= 0) returns the fixed 3-item static fallback list.
C10_EmptyCorpusWholeFallback ==
    (InCall /\ destinations = <<>> /\ rec_call.limit >= 0)
        => rec_result = sample_destinations

\* C10 as amended: with an empty corpus at training time the fallback model is
\* active and recommend returns the fixed static fallback list cut to the
\* limit of the call (the first min(limit, 3) entries for a limit >= 0, so all
\* 3 for a limit >= 3), whatever the preferences and the exclusion set.
C10_EmptyCorpusFallback ==
    (destinations = <<>> /\ recommendation_model # NoModel) =>
        /\ recommendation_model.kind = "dummy"
        /\ InCall =>
             /\ rec_call.limit >= 3 => rec_result = sample_destinations
             /\ rec_call.limit >= 0 =>
                    rec_result = SubSeq(sample_destinations, 1, Min(rec_call.limit, 3))
             /\ \A i \in 1..Len(rec_result) : rec_result[i] = sample_destinations[i]

C10_Witness ==
    /\ destinations = <<>>
    /\ InCall
    /\ rec_call.limit >= 3
    /\ Len(rec_result) = 3

------------------------------------------------------------------------------
(* Claims about submit_feedback, checked under SpecFeedback *)

\* The delta the specification gives a rating, in hundredths.
RatingDelta(rating) == IF rating >= 4 THEN 10 ELSE IF rating <= 2 THEN -5 ELSE 0

RECURSIVE SumOver(_, _, _)
\* The sum over the bag B of RatingDelta(r.rating), r in S, each copy counted.
SumOver(S, B, n) ==
    IF S = {} THEN n
    ELSE LET r == CHOOSE x \in S : TRUE
         IN  SumOver(S \ {r}, B, n + CopiesIn(r, B) * RatingDelta(r.rating))

\* The deltas of the feedback on destination id that was answered 200.
AcceptedDelta(id) ==
    SumOver({ r \in BagToSet(responses) : r.status = 200 /\ r.destination_id = id },
            responses, 0)

\* The deltas of the feedback documents stored for destination id.
StoredDelta(id) ==
    SumOver({ r \in BagToSet(user_feedback) : r.destination_id = id }, user_feedback, 0)

RECURSIVE PendingDelta(_, _)
\* The deltas of the handler tasks in T that stored their document for
\* destination id and have not yet sent their update.
PendingDelta(T, id) ==
    IF T = {} THEN 0
    ELSE LET t == CHOOSE x \in T : TRUE
         IN  PendingDelta(T \ {t}, id)
               + (IF pc[t] = "update" /\ req[t].destination_id = id
                  THEN RatingDelta(req[t].rating) ELSE 0)

\* Task t ends its request in this step.
Finishes(t) == pc[t] = "update" /\ pc'[t] = "idle"

\* C5: a feedback whose rating is outside 1..5 is rejected before any mutation:
\* no feedback document of it is stored and it is never answered as accepted
\* (so no popularity delta is applied for it).
C5_OutOfRangeRejected ==
    /\ \A r \in BagToSet(user_feedback) : r.rating >= 1 /\ r.rating <= 5
    /\ \A r \in BagToSet(responses) : r.status = 200 => (r.rating >= 1 /\ r.rating <= 5)

\* C6: the step that ends an accepted feedback adds to the popularity of the
\* destination it names 0.1 for a rating >= 4, -0.05 for a rating <= 2 and
\* nothing for a rating in between (3), changes no other destination, and
\* the feedback document is stored whatever the rating.
C6_DeltaByRating ==
    [][\A t \in Tasks :
         (Finishes(t) /\ responses' = responses (+) SetToBag({Response(req[t], 200)})) =>
            /\ BagIn(req[t], user_feedback')
            /\ Len(destinations') = Len(destinations)
            /\ \A i \in 1..Len(destinations) :
                 destinations'[i].popularity_score - destinations[i].popularity_score
                   = IF destinations[i].id # req[t].destination_id THEN 0
                     ELSE IF req[t].rating >= 4 THEN 10
                     ELSE IF req[t].rating <= 2 THEN -5
                     ELSE 0]_vars

C6_Witness ==
    /\ responses = SetToBag({Response([destination_id |-> IdPool[1], rating |-> 3], 200)})
    /\ BagIn([destination_id |-> IdPool[1], rating |-> 3], user_feedback)
    /\ destinations[1].popularity_score = InitialPopularity(destinations[1])

\* C7: whatever feedback has been accepted, the popularity of each destination
\* is its initial popularity plus 0.1 for each accepted feedback on it with a
\* rating >= 4 minus 0.05 for each with a rating <= 2, a repeated feedback
\* counted each time, with no floor and no ceiling.
C7_PopularityIsSumOfDeltas ==
    \A i \in 1..Len(destinations) :
        destinations[i].popularity_score
          = InitialPopularity(destinations[i]) + AcceptedDelta(destinations[i].id)

C7_Witness ==
    /\ CopiesIn(Response([destination_id |-> IdPool[1], rating |-> 5], 200), responses) = 2
    /\ destinations[1].popularity_score = InitialPopularity(destinations[1]) + 20

\* C8: no popularity update is lost under any interleaving of the handler
\* tasks: as long as no request failed, the popularity of each destination plus
\* the deltas of the tasks that have stored their document and not yet sent
\* their update is the initial popularity plus the deltas of all stored
\* documents; with every task done it is the initial popularity plus all deltas.
C8_NoLostUpdate ==
    (\A r \in BagToSet(responses) : r.status = 200) =>
        \A i \in 1..Len(destinations) :
            destinations[i].popularity_score + PendingDelta(Tasks, destinations[i].id)
              = InitialPopularity(destinations[i]) + StoredDelta(destinations[i].id)

C8_Witness ==
    \E t, u \in Tasks :
        /\ t # u
        /\ pc[t] = "update" /\ pc[u] = "update"
        /\ req[t].destination_id = req[u].destination_id
        /\ Matching(destinations, req[t].destination_id) # {}
        /\ RatingDelta(req[t].rating) # 0 /\ RatingDelta(req[u].rating) # 0

\* C9: a feedback that names a destination id the corpus does not hold
\* changes no destination's popularity, has its document stored, and is
\* answered with success (the store answering).
C9_MissingDestination ==
    [][\A t \in Tasks :
         /\ (pc[t] = "idle" /\ pc'[t] = "update"
               /\ Matching(destinations, req'[t].destination_id) = {}) =>
              /\ destinations' = destinations
              /\ user_feedback' = user_feedback (+) SetToBag({req'[t]})
         /\ (Finishes(t) /\ Matching(destinations, req[t].destination_id) = {}) =>
              /\ destinations' = destinations
              /\ BagIn(req[t], user_feedback')
              /\ db_available =>
                   responses' = responses (+) SetToBag({Response(req[t], 200)})]_vars

C9_Witness ==
    /\ BagIn(Response([destination_id |-> MissingId, rating |-> 5], 200), responses)
    /\ BagIn([destination_id |-> MissingId, rating |-> 5], user_feedback)
    /\ \A i \in 1..Len(destinations) :
           destinations[i].popularity_score = InitialPopularity(destinations[i])

------------------------------------------------------------------------------
(* get_recommendations, update_user_preferences, get_similar_destinations *)

PrefFields ==
    {"user_id", "preferred_climates", "activity_types", "budget_range",
     "travel_style", "interests", "languages", "accessibility_needs"}

\* UserPreferences(user_id=u): every other field at its default.
DefaultPreferences(u) ==
    [user_id |-> u, preferred_climates |-> {}, activity_types |-> {},
     budget_range |-> "medium", travel_style |-> "balanced", interests |-> {},
     languages |-> <<"en">>, accessibility_needs |-> {}]

\* A field the body leaves out keeps the value of the profile stored before.
UserPreferencesOver(old, body) ==
    [f \in PrefFields |->
        IF f \in DOMAIN body THEN body[f]
        ELSE IF old.user_id = body.user_id THEN old[f]
        ELSE DefaultPreferences(body.user_id)[f]]

\* UserPreferences parsed from a request body: a field the body leaves out
\* takes its default.  old is the profile stored before, which is not read.
UserPreferences(old, body) ==
    [f \in PrefFields |->
        IF f \in DOMAIN body THEN body[f] ELSE DefaultPreferences(body.user_id)[f]]

\* The bodies posted to /api/preferences for user u.
PreferenceBodies(u) ==
    { [user_id |-> u, activity_types |-> {"hiking"}, budget_range |-> "low"],
      [user_id |-> u, interests |-> {"history"}] }

\* The preferences a recommendation request for u may carry.
ExplicitPreferences(u) ==
    UserPreferences(NoProfile, [user_id |-> u, activity_types |-> {"beach"},
                                budget_range |-> "high", travel_style |-> "luxury"])

ServiceLimits == {MaxLimit - 1}

RecommendationRequests ==
    UNION { [op : {"recommendations"}, user_id : {u},
             preferences : {NoProfile, ExplicitPreferences(u)},
             exclude_visited : BOOLEAN, limit : ServiceLimits] : u \in Users }

PreferenceRequests ==
    UNION { [op : {"preferences"}, body : PreferenceBodies(u)] : u \in Users }

SimilarRequests ==
    [op : {"similar"},
     destination_id : {IdPool[i] : i \in 1..(NumDest + 1)} \cup {MissingId},
     limit : 0..MaxLimit]

TrendingRequests == [op : {"trending"}, limit : 0..MaxLimit]

\* The similar-to requests made while recommendations are being served.
ServiceQueries ==
    { r \in SimilarRequests : r.destination_id = IdPool[1] /\ r.limit = 1 }

\* db.user_visits as the service finds it.
VisitLogs ==
    { << [user_id |-> "u1", destination_id |-> IdPool[1], recent |-> TRUE],
         [user_id |-> "u2", destination_id |-> IdPool[2], recent |-> FALSE],
         [user_id |-> "u1", destination_id |-> IdPool[1], recent |-> FALSE] >> }

\* The corpora recommendations are served from.
ServiceCorpora == { c \in FeedbackCorpora : c[1].name = "A" }

CacheTtl == 3600

CacheEntry(recommendations) == [ttl |-> CacheTtl, value |-> recommendations]

\* redis setex under the key of user u with the items appended to the entry.
SetExAppending(entries, u, recommendations) ==
    [entries EXCEPT ![u] =
        IF @ = NoEntry THEN CacheEntry(recommendations)
        ELSE CacheEntry(@.value \o recommendations)]

\* redis setex(key of u, 3600, recommendations): the entry is replaced.
SetEx(entries, u, recommendations) ==
    [entries EXCEPT ![u] = CacheEntry(recommendations)]

\* redis delete that leaves the entry of u in place.
DeleteNothing(entries, u) == entries

\* A delete that empties the cache.
DeleteEveryKey(entries, u) == [v \in DOMAIN entries |-> NoEntry]

\* redis delete(key of u).
Delete(entries, u) == [entries EXCEPT ![u] = NoEntry]

\* The preferences get_recommendations goes on with: those of the request,
\* else the stored ones, else the defaults.
EffectivePreferencesStoredFirst(request, stored) ==
    IF stored # NoProfile THEN stored
    ELSE IF request.preferences # NoProfile THEN request.preferences
    ELSE DefaultPreferences(request.user_id)

EffectivePreferences(request, stored) ==
    IF request.preferences # NoProfile THEN request.preferences
    ELSE IF stored # NoProfile THEN stored
    ELSE DefaultPreferences(request.user_id)

\* The destination ids of the visits of user u.
VisitedDestinations(u) ==
    { user_visits[i].destination_id :
        i \in { j \in 1..Len(user_visits) : user_visits[j].user_id = u } }

\* The lists recommendation_model.recommend can return.
Recommendations(model, prefs, exclude_visited, limit) ==
    IF model.kind = "dummy" THEN { DummyRecommend(limit) }
    ELSE { ContentRecommend(model, sims, prefs, exclude_visited, limit) :
             sims \in SimilarityScores(model.destinations, prefs) }

\* Task t returns (status 200) or raises HTTPException: the response is sent
\* and the task is over.
Answer(t, request, status, body) ==
    /\ svc' = [svc EXCEPT ![t] = IdleTask]
    /\ reply' = [request |-> request, status |-> status, body |-> body]

InitService ==
    /\ destinations \in ServiceCorpora
    /\ recommendation_model = NoModel
    /\ rec_call = NoCall
    /\ rec_result = <<>>
    /\ NoFeedbackState
    /\ user_preferences = [u \in Users |-> NoProfile]
    /\ user_visits \in VisitLogs
    /\ cache = [u \in Users |-> NoEntry]
    /\ svc = [t \in Tasks |-> IdleTask]
    /\ reply = NoReply
    /\ served = 0
    /\ training = NotTraining
    /\ OtherProgramsNotStarted

\* A request reaches the service, which has started, and task t takes it.
Serving(t) ==
    /\ recommendation_model # NoModel
    /\ svc[t].pc = "idle"
    /\ served < MaxRequests
    /\ served' = served + 1

\* get_recommendations to the end of its first step: the preferences of the
\* request, or the find_one on db.user_preferences.
GetRecommendations(t, request) ==
    /\ Serving(t)
    /\ IF request.preferences = NoProfile /\ ~db_available
       THEN Answer(t, request, 500, <<>>)
       ELSE /\ svc' = [svc EXCEPT ![t] =
                      [pc |-> "visits", request |-> request,
                       user_prefs |->
                           EffectivePreferences(request,
                                                user_preferences[request.user_id]),
                       visited |-> {}]]
            /\ UNCHANGED reply
    /\ UNCHANGED <<destinations, recommendation_model, rec_call, rec_result,
                   user_feedback, pc, req, responses, db_available,
                   user_preferences, user_visits, cache, training, otherPrograms>>

\* get_recommendations: the visited destinations, read when exclude_visited.
LoadVisits(t) ==
    /\ svc[t].pc = "visits"
    /\ IF svc[t].request.exclude_visited /\ ~db_available
       THEN Answer(t, svc[t].request, 500, <<>>)
       ELSE /\ svc' = [svc EXCEPT ![t].pc = "cache",
                                  ![t].visited =
                                      IF svc[t].request.exclude_visited
                                      THEN VisitedDestinations(svc[t].request.user_id)
                                      ELSE {}]
            /\ UNCHANGED reply
    /\ UNCHANGED <<destinations, recommendation_model, rec_call, rec_result,
                   user_feedback, pc, req, responses, db_available,
                   user_preferences, user_visits, cache, served, training, otherPrograms>>

\* get_recommendations from the recommend call to its return, counting each
\* answered request in the popularity of the first stored destination.
RecommendAndCacheCounting(t) ==
    /\ svc[t].pc = "cache"
    /\ \E recommendations \in Recommendations(recommendation_model, svc[t].user_prefs,
                                              svc[t].visited, svc[t].request.limit) :
         /\ cache' = SetEx(cache, svc[t].request.user_id, recommendations)
         /\ Answer(t, svc[t].request, 200, recommendations)
    /\ destinations' = [destinations EXCEPT ![1].popularity_score = @ + 1]
    /\ UNCHANGED <<recommendation_model, rec_call, rec_result,
                   user_feedback, pc, req, responses, db_available,
                   user_preferences, user_visits, served, training, otherPrograms>>

\* get_recommendations from the recommend call to its return: the list is
\* written to the cache (setex), then answered; a setex that raises gives 500.
RecommendAndCache(t) ==
    /\ svc[t].pc = "cache"
    /\ \E recommendations \in Recommendations(recommendation_model, svc[t].user_prefs,
                                              svc[t].visited, svc[t].request.limit) :
         \/ /\ cache' = SetEx(cache, svc[t].request.user_id, recommendations)
            /\ Answer(t, svc[t].request, 200, recommendations)
         \/ /\ Answer(t, svc[t].request, 500, <<>>)
            /\ UNCHANGED cache
    /\ UNCHANGED <<destinations, recommendation_model, rec_call, rec_result,
                   user_feedback, pc, req, responses, db_available,
                   user_preferences, user_visits, served, training, otherPrograms>>

\* update_user_preferences to the end of replace_one(..., upsert=True).
UpdateUserPreferences(t, request) ==
    /\ Serving(t)
    /\ IF ~db_available
       THEN /\ Answer(t, request, 500, <<>>)
            /\ UNCHANGED user_preferences
       ELSE /\ user_preferences' =
                  [user_preferences EXCEPT ![request.body.user_id] =
                      UserPreferences(@, request.body)]
            /\ svc' = [svc EXCEPT ![t] = [IdleTask EXCEPT !.pc = "invalidate",
                                                          !.request = request]]
            /\ UNCHANGED reply
    /\ UNCHANGED <<destinations, recommendation_model, rec_call, rec_result,
                   user_feedback, pc, req, responses, db_available,
                   user_visits, cache, training, otherPrograms>>

\* update_user_preferences from redis delete to its return.
ClearCache(t) ==
    /\ svc[t].pc = "invalidate"
    /\ \/ /\ cache' = Delete(cache, svc[t].request.body.user_id)
          /\ Answer(t, svc[t].request, 200, <<>>)
       \/ /\ Answer(t, svc[t].request, 500, <<>>)
          /\ UNCHANGED cache
    /\ UNCHANGED <<destinations, recommendation_model, rec_call, rec_result,
                   user_feedback, pc, req, responses, db_available,
                   user_preferences, user_visits, served, training, otherPrograms>>

\* The entry of a user reaches its expiry.
ExpireEntry ==
    /\ \E u \in Users :
         /\ cache[u] # NoEntry
         /\ cache' = [cache EXCEPT ![u] = NoEntry]
    /\ UNCHANGED <<destinations, recommendation_model, rec_call, rec_result,
                   user_feedback, pc, req, responses, db_available,
                   user_preferences, user_visits, svc, reply, served, training,
                   otherPrograms>>

\* The $match stage of get_similar_destinations, in storage order: not the
\* reference, its climate, one of its activity types.
RECURSIVE MatchStage(_, _)
MatchStage(dests, ref) ==
    IF dests = <<>> THEN <<>>
    ELSE LET d == Head(dests)
             rest == MatchStage(Tail(dests), ref)
         IN IF /\ d.id # ref.id
               /\ d.climate = ref.climate
               /\ d.activity_types \cap ref.activity_types # {}
            THEN <<d>> \o rest
            ELSE rest

\* The pipeline with the reference never left out.
SimilarDestinationsWithReference(dests, ref, limit) ==
    Slice(MatchStage(dests, [ref EXCEPT !.id = MissingId]), limit)

\* The pipeline: $match, then $limit.
SimilarDestinations(dests, ref, limit) ==
    Slice(MatchStage(dests, ref), limit)

\* find_one that gives the first document when none has the id.
FindOneOrFirst(dests, id) ==
    LET found == { i \in 1..Len(dests) : dests[i].id = id }
    IN IF dests = <<>> THEN <<>>
       ELSE IF found = {} THEN <<dests[1]>>
       ELSE <<dests[CHOOSE i \in found : \A j \in found : i <= j]>>

\* find_one({"id": destination_id}) on a collection.
FindOne(dests, id) ==
    LET found == { i \in 1..Len(dests) : dests[i].id = id }
    IN IF found = {} THEN <<>>
       ELSE <<dests[CHOOSE i \in found : \A j \in found : i <= j]>>

\* get_similar_destinations: 404 for an unknown id; the store refuses a
\* $limit that is not positive, and any store failure is answered 500.
GetSimilarDestinations(t, request) ==
    /\ Serving(t)
    /\ LET ref == FindOne(destinations, request.destination_id)
       IN IF ~db_available THEN Answer(t, request, 500, <<>>)
          ELSE IF ref = <<>> THEN Answer(t, request, 404, <<>>)
          ELSE IF request.limit <= 0 THEN Answer(t, request, 500, <<>>)
          ELSE Answer(t, request, 200,
                      SimilarDestinations(destinations, ref[1], request.limit))
    /\ UNCHANGED <<destinations, recommendation_model, rec_call, rec_result,
                   user_feedback, pc, req, responses, db_available,
                   user_preferences, user_visits, cache, training, otherPrograms>>

\* The visits to a destination, of any date.
VisitCountOfAllTime(d) ==
    Cardinality({ i \in 1..Len(user_visits) : user_visits[i].destination_id = d.id })

\* $lookup and $addFields: the visits of the last week to a destination.
RecentVisitCount(d) ==
    Cardinality({ i \in 1..Len(user_visits) :
                    /\ user_visits[i].destination_id = d.id
                    /\ user_visits[i].recent })

\* The $sort key: recent_visit_count, then popularity_score, descending.
SortsBefore(a, b) ==
    \/ RecentVisitCount(a) > RecentVisitCount(b)
    \/ /\ RecentVisitCount(a) = RecentVisitCount(b)
       /\ a.popularity_score >= b.popularity_score

\* $sort of the documents at the positions left: every order in which each
\* document sorts before those after it; the store does not fix the order of
\* equal keys.
RECURSIVE SortStage(_, _)
SortStage(dests, left) ==
    IF left = {} THEN { <<>> }
    ELSE UNION { { <<dests[k]>> \o rest : rest \in SortStage(dests, left \ {k}) } :
                 k \in { k \in left : \A j \in left : SortsBefore(dests[k], dests[j]) } }

TrendingOrders(dests) == SortStage(dests, 1..Len(dests))

\* get_trending_destinations.
GetTrendingDestinations(t, request) ==
    /\ Serving(t)
    /\ IF ~db_available \/ request.limit <= 0
       THEN Answer(t, request, 500, <<>>)
       ELSE \E order \in TrendingOrders(destinations) :
              Answer(t, request, 200, Slice(order, request.limit))
    /\ UNCHANGED <<destinations, recommendation_model, rec_call, rec_result,
                   user_feedback, pc, req, responses, db_available,
                   user_preferences, user_visits, cache, training, otherPrograms>>

NextService ==
    \/ TrainRecommendationModels
    \/ DbChange
    \/ ExpireEntry
    \/ \E t \in Tasks :
         \/ \E request \in RecommendationRequests : GetRecommendations(t, request)
         \/ LoadVisits(t)
         \/ RecommendAndCache(t)
         \/ \E request \in PreferenceRequests : UpdateUserPreferences(t, request)
         \/ ClearCache(t)
         \/ \E request \in ServiceQueries : GetSimilarDestinations(t, request)
         \/ \E request \in {r \in TrendingRequests : r.limit = 1} :
              GetTrendingDestinations(t, request)

SpecService == InitService /\ [][NextService]_vars

------------------------------------------------------------------------------
(* Claims on the service *)

\* The last response answers a request of this endpoint.
Replied(op) == reply.request.op = op

\* C11: a recommendation request that hits an error is still answered with a
\* list (the static fallback list), never with an error response: every
\* response to a recommendation request is a success.
C11_FailureGivesFallbackList ==
    Replied("recommendations") => reply.status = 200

\* Task t takes a recommendation request in this step and goes on with it.
TakesRecommendationRequest(t) == svc[t].pc = "idle" /\ svc'[t].pc = "visits"

\* C12: the preferences a recommendation request goes on with are those it
\* carries if it carries any, else the stored profile of its user if there is
\* one, else the default profile (empty climates, activities, interests and
\* accessibility needs, budget "medium"); they are the ones handed to recommend;
\* and the request fails at this point only when the store does not answer,
\* never because no profile is stored.
C12_EffectivePreferences ==
    [][\A t \in Tasks :
         /\ TakesRecommendationRequest(t) =>
              LET request == svc'[t].request
                  stored == user_preferences[request.user_id]
              IN svc'[t].user_prefs =
                   IF request.preferences # NoProfile THEN request.preferences
                   ELSE IF stored # NoProfile THEN stored
                   ELSE [user_id |-> request.user_id, preferred_climates |-> {},
                         activity_types |-> {}, budget_range |-> "medium",
                         travel_style |-> "balanced", interests |-> {},
                         languages |-> <<"en">>, accessibility_needs |-> {}]
         /\ (svc[t].pc = "visits" /\ svc'[t].pc = "cache") =>
              svc'[t].user_prefs = svc[t].user_prefs
         /\ (/\ served' = served + 1 /\ svc' = svc
             /\ reply'.request.op = "recommendations") =>
              (~db_available /\ reply'.request.preferences = NoProfile)
    ]_vars

\* A request without preferences, for a user without stored profile, goes on
\* with the default profile.
C12_Witness ==
    \E t \in Tasks :
        /\ svc[t].pc = "cache"
        /\ svc[t].request.preferences = NoProfile
        /\ user_preferences[svc[t].request.user_id] = NoProfile
        /\ svc[t].user_prefs.budget_range = "medium"
        /\ svc[t].user_prefs.activity_types = {}

\* A request without preferences goes on with the stored profile.
C12_StoredUsed ==
    \E t \in Tasks :
        /\ svc[t].pc = "cache"
        /\ svc[t].request.preferences = NoProfile
        /\ svc[t].user_prefs = user_preferences[svc[t].request.user_id]

\* A request goes on with its own preferences while a profile is stored.
C12_ExplicitUsed ==
    \E t \in Tasks :
        /\ svc[t].pc = "cache"
        /\ svc[t].request.preferences # NoProfile
        /\ user_preferences[svc[t].request.user_id] # NoProfile
        /\ svc[t].user_prefs = svc[t].request.preferences

\* C13: when update_user_preferences has answered success for user u (and no
\* response has been sent since), the cache holds no entry for u.
C13_NoEntryAfterUpdate ==
    (Replied("preferences") /\ reply.status = 200) =>
        cache[reply.request.body.user_id] = NoEntry

\* An update has answered success while the other user keeps an entry.
C13_Witness ==
    /\ Replied("preferences") /\ reply.status = 200
    /\ cache[reply.request.body.user_id] = NoEntry
    /\ \E u \in Users : cache[u] # NoEntry

\* An update is about to delete an entry that exists.
C13_EntryBefore ==
    \E t \in Tasks :
        /\ svc[t].pc = "invalidate"
        /\ cache[svc[t].request.body.user_id] # NoEntry

\* C14: the step in which update_user_preferences writes the profile of user u
\* leaves as stored profile of u exactly the submitted one: every field of the
\* body with the value of the body, every field the body omits at its default
\* (whatever was stored before), and no other user's profile is touched; if
\* none was stored one is created.
C14_ReplacedWholesale ==
    [][\A t \in Tasks :
         (svc[t].pc = "idle" /\ svc'[t].pc = "invalidate") =>
           LET body == svc'[t].request.body
               u == body.user_id
           IN /\ DOMAIN user_preferences'[u] = PrefFields
              /\ \A f \in PrefFields :
                   user_preferences'[u][f] =
                       IF f \in DOMAIN body THEN body[f] ELSE DefaultPreferences(u)[f]
              /\ \A v \in Users \ {u} : user_preferences'[v] = user_preferences[v]
    ]_vars

\* A second update of the same user, omitting budget_range, has been written
\* after a first one that set it to "low": the stored budget is the default.
C14_Witness ==
    \E t \in Tasks :
        /\ svc[t].pc = "invalidate"
        /\ "budget_range" \notin DOMAIN svc[t].request.body
        /\ Replied("preferences") /\ reply.status = 200
        /\ reply.request.body.user_id = svc[t].request.body.user_id
        /\ "budget_range" \in DOMAIN reply.request.body
        /\ reply.request.body.budget_range = "low"
        /\ user_preferences[svc[t].request.body.user_id].budget_range = "medium"
        /\ user_preferences[svc[t].request.body.user_id].activity_types = {}

\* C15: the step in which a recommendation request for user u answers success
\* leaves under the key of u exactly the returned list, whole, with expiry
\* 3600 s, whatever entry was there before, and touches no other user's entry.
C15_WholeListCached ==
    [][\A t \in Tasks :
         (/\ svc[t].pc = "cache" /\ svc'[t].pc = "idle"
          /\ reply'.status = 200) =>
           LET u == svc[t].request.user_id
           IN /\ reply'.request = svc[t].request
              /\ cache'[u] = [ttl |-> 3600, value |-> reply'.body]
              /\ \A v \in Users \ {u} : cache'[v] = cache[v]
    ]_vars

\* A recommendation request has answered a non-empty list, which is the
\* entry of its user, while the other user also has an entry.
C15_Witness ==
    /\ Replied("recommendations") /\ reply.status = 200
    /\ reply.body # <<>>
    /\ cache[reply.request.user_id] = [ttl |-> 3600, value |-> reply.body]
    /\ \A u \in Users : cache[u] # NoEntry

\* A request is about to write over an entry holding another list than any
\* it can return.
C15_EntryBefore ==
    \E t \in Tasks :
        /\ svc[t].pc = "cache"
        /\ cache[svc[t].request.user_id] # NoEntry
        /\ cache[svc[t].request.user_id].value \notin
               Recommendations(recommendation_model, svc[t].user_prefs,
                               svc[t].visited, svc[t].request.limit)

------------------------------------------------------------------------------
(* submit_feedback while recommendations are cached *)

\* The service has served u1 a recommendation request without preferences,
\* exclusions or stored profile, and u2 none, before any feedback arrives.
InitFeedbackCached ==
    /\ destinations \in ServiceCorpora
    /\ recommendation_model = TrainedModel(destinations, FALSE)
    /\ rec_call = NoCall
    /\ rec_result = <<>>
    /\ NoFeedbackState
    /\ user_preferences = [u \in Users |-> NoProfile]
    /\ user_visits = <<>>
    /\ \E limit \in ServiceLimits :
         \E recommendations \in Recommendations(recommendation_model,
                                                DefaultPreferences("u1"), {}, limit) :
           /\ cache = SetEx([u \in Users |-> NoEntry], "u1", recommendations)
           /\ reply = [request |-> [op |-> "recommendations", user_id |-> "u1",
                                    preferences |-> NoProfile,
                                    exclude_visited |-> FALSE, limit |-> limit],
                       status |-> 200, body |-> recommendations]
    /\ svc = [t \in Tasks |-> IdleTask]
    /\ served = 1
    /\ training = NotTraining
    /\ OtherProgramsNotStarted

SpecFeedbackCached == InitFeedbackCached /\ [][NextFeedback]_vars

\* C16: no step of submit_feedback (storing the document, updating the
\* popularity, answering) changes the cache: every user's entry is the same
\* after it as before, present or absent, also when a popularity changed.
C16_CacheUnchanged ==
    [][(pc' # pc \/ responses' # responses \/ destinations' # destinations)
          => \A u \in Users : cache'[u] = cache[u]]_vars

\* An accepted feedback has changed a popularity while u1 has an entry, which
\* still lists the destination with what was read before, and u2 has none.
C16_Witness ==
    /\ \E r \in BagToSet(responses) : r.status = 200
    /\ \E i \in 1..Len(destinations) :
         destinations[i].popularity_score # InitialPopularity(destinations[i])
    /\ cache["u1"] = CacheEntry(reply.body) /\ reply.body # <<>>
    /\ cache["u2"] = NoEntry

------------------------------------------------------------------------------
(* Claims on the service, continued *)

\* C17: no step of a recommendation request (recommend included), of a
\* preference update, of a similar-to or of a trending query changes a stored
\* destination, popularity or any other attribute, nor the destinations the
\* model holds; in this specification, where no feedback arrives, the
\* destinations never change.
C17_OnlyFeedbackWrites ==
    [][/\ destinations' = destinations
       /\ (served' # served \/ svc' # svc \/ reply' # reply) =>
             recommendation_model' = recommendation_model]_vars

\* A preference update and a recommendation request with a non-empty answer
\* have been served, and every popularity is what it was at the start.
C17_Witness ==
    /\ Replied("recommendations") /\ reply.status = 200 /\ reply.body # <<>>
    /\ \E u \in Users : user_preferences[u] # NoProfile
    /\ \A i \in 1..Len(destinations) :
         destinations[i].popularity_score = InitialPopularity(destinations[i])

\* Every request of the budget has been served, the last a trending query.
C17_QueriesServed ==
    /\ served = MaxRequests
    /\ Replied("trending") /\ reply.status = 200
    /\ \A t \in Tasks : svc[t].pc = "idle"

\* The popularity scores a destination can have: those of the pool, and those
\* one feedback makes of them.
Popularities ==
    UNION { {d.popularity_score, d.popularity_score + PopularityDelta(5),
             d.popularity_score + PopularityDelta(1)} :
            d \in DestinationPool }

\* C18 (checked under SpecRecommend): the score recommend computes for a
\* destination depends on its popularity score: in every call of the fitted
\* model there is a destination whose score would be another one with another
\* popularity.
C18_ScoreReadsPopularity ==
    ContentCall =>
        \E i \in 1..Len(recommendation_model.destinations) :
            \E p \in Popularities :
                LET d == recommendation_model.destinations[i]
                IN BoostedScore(rec_call.sims[i],
                                [d EXCEPT !.popularity_score = p], rec_call.prefs)
                   # BoostedScore(rec_call.sims[i], d, rec_call.prefs)

------------------------------------------------------------------------------
(* train_recommendation_models run again while recommend is being called.    *)
(* The service calls train_recommendation_models from initialize_ml_models   *)
(* only; here it may be called at any time, and it and recommend advance     *)
(* statement by statement, as they would on different threads.               *)

\* The corpora the service starts with; the data loader adds to them.
StartCorpora == { c \in Corpora : Len(c) < NumDest }

RebuildPreferences == { p \in PreferencePool : p.activity_types # {} }

InitRebuild ==
    /\ destinations \in StartCorpora
    /\ recommendation_model = NoModel
    /\ rec_call = NoCall
    /\ rec_result = <<>>
    /\ NoFeedbackState
    /\ NoServiceState

\* The data loader stores one more destination.
LoadDestination ==
    /\ Len(destinations) < NumDest
    /\ \E p \in DestinationPool :
         destinations' = Append(destinations, WithId(p, Len(destinations) + 1))
    /\ UNCHANGED <<recommendation_model, rec_call, rec_result,
                   user_feedback, pc, req, responses, db_available, serviceVars,
                   otherPrograms>>

\* train_recommendation_models to the end of the read of db.destinations; an
\* empty corpus, or a read that raises, installs the fallback model.  It is
\* called by initialize_ml_models ("train") or while the service runs.
FetchDestinations ==
    /\ training.pc \in {"idle", "train"}
    /\ training.runs < MaxTrainings
    /\ \E fails \in BOOLEAN :
         IF fails \/ destinations = <<>>
         THEN /\ recommendation_model' = DummyRecommendationModel
              /\ training' = [training EXCEPT !.pc = "idle", !.runs = @ + 1]
         ELSE /\ training' = [training EXCEPT !.pc = "fetched", !.runs = @ + 1,
                                              !.corpus = destinations]
              /\ UNCHANGED recommendation_model
    /\ UNCHANGED <<destinations, rec_call, rec_result,
                   user_feedback, pc, req, responses, db_available,
                   user_preferences, user_visits, cache, svc, reply, served,
                   otherPrograms>>

\* The global user_preference_vectorizer is assigned the fitted vectorizer
\* (the global location_clusters before it); a fit that raises installs the
\* fallback model.
FitVectorizer ==
    /\ training.pc = "fetched"
    /\ \E fails \in BOOLEAN :
         IF fails
         THEN /\ recommendation_model' = DummyRecommendationModel
              /\ training' = [training EXCEPT !.pc = "idle", !.corpus = <<>>]
         ELSE /\ training' = [training EXCEPT
                                 !.pc = "fitted",
                                 !.user_preference_vectorizer =
                                     Fit(DestinationTexts(training.corpus))]
              /\ UNCHANGED recommendation_model
    /\ UNCHANGED <<destinations, rec_call, rec_result,
                   user_feedback, pc, req, responses, db_available,
                   user_preferences, user_visits, cache, svc, reply, served,
                   otherPrograms>>

\* The model object is built, then the global recommendation_model is
\* assigned it.
InstallModel ==
    /\ training.pc = "fitted"
    /\ recommendation_model' =
           ContentBasedRecommendationModel(training.corpus,
                                           training.user_preference_vectorizer)
    /\ training' = [training EXCEPT !.pc = "installed"]
    /\ UNCHANGED <<destinations, rec_call, rec_result,
                   user_feedback, pc, req, responses, db_available,
                   user_preferences, user_visits, cache, svc, reply, served,
                   otherPrograms>>

\* joblib.dump of the three objects; a dump that raises installs the fallback
\* model.
SaveModels ==
    /\ training.pc = "installed"
    /\ training' = [training EXCEPT !.pc = "idle", !.corpus = <<>>]
    /\ \E fails \in BOOLEAN :
         recommendation_model' =
             IF fails THEN DummyRecommendationModel ELSE recommendation_model
    /\ UNCHANGED <<destinations, rec_call, rec_result,
                   user_feedback, pc, req, responses, db_available,
                   user_preferences, user_visits, cache, svc, reply, served,
                   otherPrograms>>

\* cosine_similarity(user_vector, destination_vectors): 0 where the vectors
\* share no term.
CosineSimilarity(user_vector, destination_vectors) ==
    { s \in [1..Len(destination_vectors) -> SimLevels \cup {0}] :
        \A i \in 1..Len(destination_vectors) :
            s[i] = 0 <=> destination_vectors[i] \cap user_vector = {} }

\* recommend reading the module global instead of its own vectorizer.
VectorizerOfModule(self, user_preference_vectorizer) == user_preference_vectorizer

\* self.vectorizer
VectorizerOf(self, user_preference_vectorizer) == self.vectorizer

\* recommendation_model.recommend(...) is called: self is the object the global
\* refers to now.  The fallback model returns at once.
CallRecommend ==
    /\ recommendation_model # NoModel
    /\ rec_call = NoCall
    /\ served < MaxRequests
    /\ served' = served + 1
    /\ \E prefs \in RebuildPreferences :
         /\ rec_call' = [kind |-> "recommend", prefs |-> prefs, exclude_visited |-> {},
                         limit |-> MaxLimit, sims |-> <<>>,
                         self |-> recommendation_model,
                         pc |-> IF recommendation_model.kind = "dummy"
                                THEN "done" ELSE "transform",
                         vectorizer |-> NoVectorizer, user_vector |-> {},
                         destination_vectors |-> <<>>, destinations |-> <<>>]
         /\ rec_result' = IF recommendation_model.kind = "dummy"
                          THEN DummyRecommend(MaxLimit) ELSE <<>>
    /\ UNCHANGED <<destinations, recommendation_model,
                   user_feedback, pc, req, responses, db_available,
                   user_preferences, user_visits, cache, svc, reply, training,
                   otherPrograms>>

\* user_vector = self.vectorizer.transform([user_text])
TransformUserText ==
    /\ rec_call # NoCall /\ rec_call.pc = "transform"
    /\ LET vectorizer == VectorizerOf(rec_call.self, training.user_preference_vectorizer)
       IN rec_call' = [rec_call EXCEPT
                          !.pc = "similarity",
                          !.vectorizer = vectorizer,
                          !.user_vector =
                              Transform(vectorizer, <<UserTerms(rec_call.prefs)>>)[1]]
    /\ UNCHANGED <<destinations, recommendation_model, rec_result,
                   user_feedback, pc, req, responses, db_available, serviceVars,
                   otherPrograms>>

\* similarity_scores = cosine_similarity(user_vector, self.destination_vectors)
ComputeSimilarity ==
    /\ rec_call # NoCall /\ rec_call.pc = "similarity"
    /\ \E sims \in CosineSimilarity(rec_call.user_vector,
                                    rec_call.self.destination_vectors) :
         rec_call' = [rec_call EXCEPT
                         !.pc = "score", !.sims = sims,
                         !.destination_vectors = rec_call.self.destination_vectors]
    /\ UNCHANGED <<destinations, recommendation_model, rec_result,
                   user_feedback, pc, req, responses, db_available, serviceVars,
                   otherPrograms>>

\* The loop over self.destinations, the sort and the slice.
ScoreDestinations ==
    /\ rec_call # NoCall /\ rec_call.pc = "score"
    /\ rec_call' = [rec_call EXCEPT !.pc = "done",
                                    !.destinations = rec_call.self.destinations]
    /\ rec_result' = ContentRecommend(rec_call.self, rec_call.sims, rec_call.prefs,
                                      rec_call.exclude_visited, rec_call.limit)
    /\ UNCHANGED <<destinations, recommendation_model,
                   user_feedback, pc, req, responses, db_available, serviceVars,
                   otherPrograms>>

\* recommend returns.
ReturnRecommendations ==
    /\ rec_call # NoCall /\ rec_call.pc = "done"
    /\ rec_call' = NoCall
    /\ rec_result' = <<>>
    /\ UNCHANGED <<destinations, recommendation_model,
                   user_feedback, pc, req, responses, db_available, serviceVars,
                   otherPrograms>>

NextRebuild ==
    \/ LoadDestination
    \/ FetchDestinations
    \/ FitVectorizer
    \/ InstallModel
    \/ SaveModels
    \/ CallRecommend
    \/ TransformUserText
    \/ ComputeSimilarity
    \/ ScoreDestinations
    \/ ReturnRecommendations

SpecRebuild == InitRebuild /\ [][NextRebuild]_vars

\* The index an object holds is of one piece: its vectorizer is fitted on its
\* destinations and its vectors are those of its destinations.
OfOnePiece(index) ==
    /\ index.vectorizer = Fit(DestinationTexts(index.destinations))
    /\ index.destination_vectors =
           Transform(index.vectorizer, DestinationTexts(index.destinations))

\* The call has read this part of the index.
HasRead(part) ==
    \/ part = "vectorizer" /\ rec_call.pc \in {"similarity", "score", "done"}
    \/ part = "destination_vectors" /\ rec_call.pc \in {"score", "done"}
    \/ part = "destinations" /\ rec_call.pc = "done"

\* C19: whatever a recommend call on the fitted model has read so far
\* (vectorizer, destination vectors, destination list) comes from one index of
\* one piece: the index installed when the call began (the old one) or the one
\* installed now (the new one), whatever training has done meanwhile; and the
\* list it returns is the one recommend computes on that index.
C19_AllFromOneIndex ==
    (rec_call # NoCall /\ rec_call.self.kind = "content") =>
        \E index \in {rec_call.self} \cup
                     (IF recommendation_model.kind = "content"
                      THEN {recommendation_model} ELSE {}) :
            /\ OfOnePiece(index)
            /\ HasRead("vectorizer") => rec_call.vectorizer = index.vectorizer
            /\ HasRead("destination_vectors") =>
                   /\ rec_call.destination_vectors = index.destination_vectors
                   /\ rec_call.sims \in SimilarityScores(index.destinations,
                                                         rec_call.prefs)
            /\ HasRead("destinations") =>
                   /\ rec_call.destinations = index.destinations
                   /\ rec_result = ContentRecommend(index, rec_call.sims, rec_call.prefs,
                                                    rec_call.exclude_visited,
                                                    rec_call.limit)

\* A call that began on one index has read all of it and returns its list
\* after training has installed another index, of other destinations.
C19_Witness ==
    /\ rec_call # NoCall /\ rec_call.self.kind = "content"
    /\ rec_call.pc = "done" /\ rec_result # <<>>
    /\ recommendation_model.kind = "content"
    /\ recommendation_model.destinations # rec_call.self.destinations
    /\ recommendation_model.vectorizer # rec_call.self.vectorizer

\* A call reads the vectorizer while training has assigned the module global
\* and not yet the model.
C19_BetweenAssignments ==
    /\ rec_call # NoCall /\ rec_call.pc = "similarity"
    /\ training.pc = "fitted"
    /\ training.user_preference_vectorizer # rec_call.self.vectorizer

------------------------------------------------------------------------------
(* get_similar_destinations and get_trending_destinations on larger corpora *)

\* Every corpus of NumDest + 1 documents, ids distinct.
QueryCorpora ==
    { [i \in 1..(NumDest + 1) |-> WithId(f[i], i)] :
        f \in [1..(NumDest + 1) -> DestinationPool] }

\* Visits: to the first destination 5 of the last week, to the second 5, to
\* the third 9, and one older visit to each.
ScenarioVisits ==
    [i \in 1..22 |->
        [user_id |-> "u1",
         destination_id |-> IF i <= 6 THEN IdPool[1]
                            ELSE IF i <= 12 THEN IdPool[2] ELSE IdPool[3],
         recent |-> i \notin {6, 12, 22}]]

\* db.user_visits as the queries find it.
QueryVisitLogs == VisitLogs \cup {ScenarioVisits}

\* The service has started and serves queries only.
InitQuery ==
    /\ destinations \in QueryCorpora
    /\ recommendation_model = TrainedModel(destinations, FALSE)
    /\ rec_call = NoCall
    /\ rec_result = <<>>
    /\ NoFeedbackState
    /\ user_preferences = [u \in Users |-> NoProfile]
    /\ user_visits \in QueryVisitLogs
    /\ cache = [u \in Users |-> NoEntry]
    /\ svc = [t \in Tasks |-> IdleTask]
    /\ reply = NoReply
    /\ served = 0
    /\ training = NotTraining
    /\ OtherProgramsNotStarted

\* A query is answered in one step, so which handler task serves it makes no
\* difference: the first one serves them all.
NextQuery ==
    \/ DbChange
    \/ \E request \in SimilarRequests : GetSimilarDestinations(1, request)
    \/ \E request \in TrendingRequests : GetTrendingDestinations(1, request)

SpecQuery == InitQuery /\ [][NextQuery]_vars

\* The positions, in storage order, of the candidates of a similar-to query:
\* the destinations of the climate of the reference that share an activity
\* type with it and are not the reference.
SimilarCandidates(id) ==
    LET ref == destinations[CHOOSE k \in 1..Len(destinations) : destinations[k].id = id]
    IN { k \in 1..Len(destinations) :
           /\ destinations[k].id # id
           /\ destinations[k].climate = ref.climate
           /\ \E a \in destinations[k].activity_types : a \in ref.activity_types }

\* C20: an answered similar-to query returns candidates only (same climate as
\* the reference, at least one activity type in common, never the reference),
\* and they are the first limit candidates in storage order: the i-th returned
\* document is the i-th candidate stored.
C20_FilterThenTruncate ==
    (Replied("similar") /\ reply.status = 200) =>
        LET cand == SimilarCandidates(reply.request.destination_id)
            body == reply.body
        IN /\ Len(body) = Min(reply.request.limit, Cardinality(cand))
           /\ \A i \in 1..Len(body) :
                \E k \in cand :
                    /\ body[i] = destinations[k]
                    /\ Cardinality({ j \in cand : j <= k }) = i

\* A query has returned limit candidates and left out a later one, and the
\* reference is stored before the first returned.
C20_Witness ==
    /\ Replied("similar") /\ reply.status = 200
    /\ reply.body # <<>>
    /\ Len(reply.body) = reply.request.limit
    /\ Cardinality(SimilarCandidates(reply.request.destination_id)) > Len(reply.body)
    /\ \E k \in 1..Len(destinations) :
         /\ destinations[k].id = reply.request.destination_id
         /\ \E j \in 1..Len(destinations) : j > k /\ reply.body[1] = destinations[j]

------------------------------------------------------------------------------
(* Claims on the queries, continued *)

\* The ids of the stored destinations.
StoredIds == { destinations[k].id : k \in 1..Len(destinations) }

\* A request of this endpoint is received and answered in this step.
AnswersAtOnce(op) ==
    served' = served + 1 /\ svc' = svc /\ reply'.request.op = op

\* C21: a similar-to query for an id no stored destination carries, received
\* while the store answers, is answered 404 whatever its limit, not with an
\* empty list and not with 500; and 404 is answered for such ids only.
C21_UnknownIdNotFound ==
    [][AnswersAtOnce("similar") =>
         /\ (db_available /\ reply'.request.destination_id \notin StoredIds)
               => (reply'.status = 404 /\ reply'.body = <<>>)
         /\ reply'.status = 404
               => reply'.request.destination_id \notin StoredIds
      ]_vars

\* A query for an unknown id, with a limit the store would refuse, has been
\* answered 404.
C21_Witness ==
    /\ Replied("similar") /\ reply.status = 404
    /\ reply.request.destination_id = MissingId
    /\ reply.request.limit = 0

\* The visits of the last week to the destination with this id.
VisitsInWindow(id) ==
    Cardinality({ i \in 1..Len(user_visits) :
                    user_visits[i].destination_id = id /\ user_visits[i].recent })

\* Destination a may stand before destination b in the trending order.
TrendsNoLower(a, b) ==
    \/ VisitsInWindow(a.id) > VisitsInWindow(b.id)
    \/ /\ VisitsInWindow(a.id) = VisitsInWindow(b.id)
       /\ a.popularity_score >= b.popularity_score

\* C22: an answered trending query returns min(limit, number of destinations)
\* stored destinations, each once, ordered by their count of visits of the
\* last 7 days, descending, and among equal counts by popularity, descending;
\* no destination left out trends higher than one returned.  Older visits
\* do not count.
C22_TrendingOrder ==
    (Replied("trending") /\ reply.status = 200) =>
        LET body == reply.body
        IN /\ Len(body) = Min(reply.request.limit, Len(destinations))
           /\ \E pos \in [1..Len(body) -> 1..Len(destinations)] :
                /\ \A i, j \in 1..Len(body) : i # j => pos[i] # pos[j]
                /\ \A i \in 1..Len(body) : body[i] = destinations[pos[i]]
                /\ \A i, j \in 1..Len(body) : i < j => TrendsNoLower(body[i], body[j])
                /\ \A k \in 1..Len(destinations) :
                     (\A i \in 1..Len(body) : pos[i] # k) =>
                        \A i \in 1..Len(body) : TrendsNoLower(body[i], destinations[k])

\* The scenario: counts X:5, Y:5, Z:9 in the window (and an older visit to
\* each), popularity X:3.0, Y:1.0; the order returned is Z, X, Y.
C22_Witness ==
    /\ Replied("trending") /\ reply.status = 200
    /\ VisitsInWindow(IdPool[1]) = 5 /\ destinations[1].popularity_score = 300
    /\ VisitsInWindow(IdPool[2]) = 5 /\ destinations[2].popularity_score = 100
    /\ VisitsInWindow(IdPool[3]) = 9
    /\ Len(reply.body) = 3
    /\ reply.body[1].id = IdPool[3]
    /\ reply.body[2].id = IdPool[1]
    /\ reply.body[3].id = IdPool[2]

\* The destination of the fitted corpus that a recommendation is about.
DestinationOf(rec) ==
    CHOOSE d \in { recommendation_model.destinations[k] :
                     k \in 1..Len(recommendation_model.destinations) } : d.id = rec.id

\* No activity tag and no interest tag shared with the user, another budget.
NothingMatches(dest, prefs) ==
    /\ dest.activity_types \cap prefs.activity_types = {}
    /\ dest.interests \cap prefs.interests = {}
    /\ dest.budget_level # prefs.budget_range

\* The recommendations without their justification.
Ranking(recs) == [i \in 1..Len(recs) |-> [id |-> recs[i].id, score |-> recs[i].score]]

\* The candidates of the loop, each with its score and no justification.
RECURSIVE Unjustified(_, _, _, _)
Unjustified(dests, sims, prefs, exclude_visited) ==
    IF dests = <<>> THEN <<>>
    ELSE LET n == Len(dests)
             rest == Unjustified(SubSeq(dests, 1, n - 1), sims, prefs, exclude_visited)
         IN  IF exclude_visited # {} /\ dests[n].id \in exclude_visited THEN rest
             ELSE Append(rest, [id |-> dests[n].id,
                                score |-> BoostedScore(sims[n], dests[n], prefs)])

\* x behind every entry of the descending list s that does not score lower.
RECURSIVE RankedInsert(_, _)
RankedInsert(s, x) ==
    IF s = <<>> THEN <<x>>
    ELSE IF Head(s).score >= x.score THEN <<Head(s)>> \o RankedInsert(Tail(s), x)
    ELSE <<x>> \o s

RECURSIVE Ranked(_)
Ranked(recs) ==
    IF recs = <<>> THEN <<>>
    ELSE RankedInsert(Ranked(SubSeq(recs, 1, Len(recs) - 1)), recs[Len(recs)])

\* C23: in a list the content-based model returns, the justification of a
\* destination is the generic high-rating text exactly when the destination
\* shares no activity tag and no interest tag with the user and has another
\* budget level; and the ids and scores of the list, in order, are what
\* ranking the candidates by score alone gives, without any justification.
C23_GenericIffNoMatch ==
    ContentCall =>
        /\ \A i \in 1..Len(rec_result) :
             (rec_result[i].reason = <<GenericReason>>)
                <=> NothingMatches(DestinationOf(rec_result[i]), rec_call.prefs)
        /\ \A i \in 1..Len(rec_result) :
             /\ rec_result[i].reason # <<>>
             /\ \A k \in 1..Len(rec_result[i].reason) :
                  rec_result[i].reason[k] = GenericReason => Len(rec_result[i].reason) = 1
        /\ Ranking(rec_result) =
             Slice(Ranked(Unjustified(recommendation_model.destinations, rec_call.sims,
                                      rec_call.prefs, rec_call.exclude_visited)),
                   rec_call.limit)

\* One list holds a destination justified by the generic text and, ranked
\* above it, one justified by matches.
C23_Witness ==
    /\ ContentCall
    /\ Len(rec_result) = 2
    /\ rec_result[1].reason # <<GenericReason>>
    /\ rec_result[2].reason = <<GenericReason>>
    /\ NothingMatches(DestinationOf(rec_result[2]), rec_call.prefs)

\* ------------------------------------------------------------------------
\* A recommendation request and a preference update for one user, who has a
\* stored profile; the model is fitted.

\* db.user_preferences as the requests find it: the first user has a profile.
StoredProfiles ==
    [u \in Users |-> IF u = "u1" THEN ExplicitPreferences(u) ELSE NoProfile]

InitOverlap ==
    /\ destinations \in ServiceCorpora
    /\ recommendation_model = TrainedModel(destinations, FALSE)
    /\ rec_call = NoCall
    /\ rec_result = <<>>
    /\ NoFeedbackState
    /\ user_preferences = StoredProfiles
    /\ user_visits \in VisitLogs
    /\ cache = [u \in Users |-> NoEntry]
    /\ svc = [t \in Tasks |-> IdleTask]
    /\ reply = NoReply
    /\ served = 0
    /\ training = NotTraining
    /\ OtherProgramsNotStarted

\* The requests for the first user that read the stored profile.
StoredPreferenceRequests ==
    { r \in RecommendationRequests : r.user_id = "u1" /\ r.preferences = NoProfile }

NextOverlap ==
    \E t \in Tasks :
       \/ \E request \in StoredPreferenceRequests : GetRecommendations(t, request)
       \/ LoadVisits(t)
       \/ RecommendAndCache(t)
       \/ \E request \in { r \in PreferenceRequests : r.body.user_id = "u1" } :
            UpdateUserPreferences(t, request)
       \/ ClearCache(t)

SpecOverlap == InitOverlap /\ [][NextOverlap]_vars

\* Task t writes its list to the cache and answers, and with that every
\* request received has completed.
LastToComplete(t) ==
    /\ svc[t].pc = "cache"
    /\ reply'.status = 200
    /\ cache'[svc[t].request.user_id] = CacheEntry(reply'.body)
    /\ \A t2 \in Tasks : svc'[t2].pc = "idle"

\* C24: when a recommendation request that read the stored profile of a user
\* completes, and no request is left in progress, the list it leaves in the
\* cache is one the profile stored now gives: it was not computed from a
\* profile that a preference update has replaced meanwhile.  (When the update
\* completes last, its delete leaves no list at all.)
C24_NoListOfSupersededProfile ==
    [][\A t \in Tasks :
         (LastToComplete(t) /\ svc[t].request.preferences = NoProfile)
            => reply'.body \in
                 Recommendations(recommendation_model,
                                 user_preferences[svc[t].request.user_id],
                                 svc[t].visited, svc[t].request.limit)
      ]_vars

\* Both requests have completed, the profile has been replaced, and the
\* cache holds a list for the user.
C24_StaleEntry ==
    /\ served = 2
    /\ \A t \in Tasks : svc[t].pc = "idle"
    /\ user_preferences["u1"] # StoredProfiles["u1"]
    /\ cache["u1"] # NoEntry
    /\ cache["u1"].value \notin
          UNION { Recommendations(recommendation_model, user_preferences["u1"],
                                  visited, MaxLimit - 1) :
                     visited \in SUBSET StoredIds }

\* A call of recommend on the fallback model is in progress.
FallbackCall == InCall /\ recommendation_model.kind = "dummy"

\* The ids of the static list, in its order.
StaticIds == <<"paris_france", "tokyo_japan", "new_york_usa">>

\* C25: a recommend call on the fallback model with a limit >= 0 returns the
\* first min(limit, 3) entries of the static list (Paris, Tokyo, New York, in
\* this order), whatever the preferences and the exclusions of the call and
\* whatever calls came before.
C25_FallbackFixedList ==
    (FallbackCall /\ rec_call.limit >= 0) =>
        /\ Len(rec_result) = Min(rec_call.limit, 3)
        /\ \A i \in 1..Len(rec_result) :
             /\ rec_result[i].id = StaticIds[i]
             /\ rec_result[i] = sample_destinations[i]

\* The fallback model was asked for more than the static list holds, with
\* preferences and exclusions that a fitted model would use, and returned
\* the three entries.
C25_Witness ==
    /\ FallbackCall
    /\ rec_call.limit = MaxLimit + 1
    /\ rec_call.exclude_visited # {}
    /\ rec_call.prefs.activity_types # {}
    /\ Len(rec_result) = 3

\* ------------------------------------------------------------------------
\* Startup: initialize_ml_models, step by step.  What /app/models holds is
\* not the program's to decide: each joblib.load finds its file as an earlier
\* run saved it, finds no file, or fails on it.

\* The outcomes of a call into the file system.
FileOutcomes == {"ok", "FileNotFoundError", "Exception"}

\* The models an earlier run can have saved: train_recommendation_models
\* dumps the content-based model it has just built.
SavedModels ==
    { ContentBasedRecommendationModel(corpus, Fit(DestinationTexts(corpus))) :
        corpus \in Corpora \ {<<>>} }

InitStartup ==
    /\ destinations \in Corpora
    /\ recommendation_model = NoModel
    /\ rec_call = NoCall
    /\ rec_result = <<>>
    /\ NoFeedbackState
    /\ user_preferences = [u \in Users |-> NoProfile]
    /\ user_visits = <<>>
    /\ cache = [u \in Users |-> NoEntry]
    /\ svc = [t \in Tasks |-> IdleTask]
    /\ reply = NoReply
    /\ served = 0
    /\ training = [NotTraining EXCEPT !.pc = "makedirs"]
    /\ OtherProgramsNotStarted

\* An except branch that logs and returns.
LogAndReturn ==
    /\ UNCHANGED recommendation_model
    /\ training' = [training EXCEPT !.pc = "idle"]

\* The except branch of initialize_ml_models: the fallback model is
\* installed and the function returns.
UseDummyModel ==
    /\ recommendation_model' = DummyRecommendationModel
    /\ training' = [training EXCEPT !.pc = "idle"]

\* os.makedirs(model_path, exist_ok=True).
MakeDirs ==
    /\ training.pc = "makedirs"
    /\ \E outcome \in {"ok", "Exception"} :
         IF outcome = "ok"
         THEN /\ training' = [training EXCEPT !.pc = "load_model"]
              /\ UNCHANGED recommendation_model
         ELSE UseDummyModel
    /\ UNCHANGED <<destinations, rec_call, rec_result,
                   user_feedback, pc, req, responses, db_available,
                   user_preferences, user_visits, cache, svc, reply, served,
                   otherPrograms>>

\* recommendation_model = joblib.load(recommendation_model.pkl).
LoadRecommendationModel ==
    /\ training.pc = "load_model"
    /\ \E outcome \in FileOutcomes :
         CASE outcome = "ok" ->
                /\ recommendation_model' \in SavedModels
                /\ training' = [training EXCEPT !.pc = "load_clusters"]
           [] outcome = "FileNotFoundError" ->
                /\ training' = [training EXCEPT !.pc = "train"]
                /\ UNCHANGED recommendation_model
           [] OTHER -> UseDummyModel
    /\ UNCHANGED <<destinations, rec_call, rec_result,
                   user_feedback, pc, req, responses, db_available,
                   user_preferences, user_visits, cache, svc, reply, served,
                   otherPrograms>>

\* location_clusters = joblib.load(location_clusters.pkl).
LoadLocationClusters ==
    /\ training.pc = "load_clusters"
    /\ \E outcome \in FileOutcomes :
         CASE outcome = "ok" ->
                /\ training' = [training EXCEPT !.pc = "load_vectorizer"]
                /\ UNCHANGED recommendation_model
           [] outcome = "FileNotFoundError" ->
                /\ training' = [training EXCEPT !.pc = "train"]
                /\ UNCHANGED recommendation_model
           [] OTHER -> UseDummyModel
    /\ UNCHANGED <<destinations, rec_call, rec_result,
                   user_feedback, pc, req, responses, db_available,
                   user_preferences, user_visits, cache, svc, reply, served,
                   otherPrograms>>

\* user_preference_vectorizer = joblib.load(preference_vectorizer.pkl); with
\* it loaded the function returns.
LoadPreferenceVectorizer ==
    /\ training.pc = "load_vectorizer"
    /\ \E outcome \in FileOutcomes :
         CASE outcome = "ok" ->
                /\ training' = [training EXCEPT
                                  !.pc = "idle",
                                  !.user_preference_vectorizer =
                                      recommendation_model.vectorizer]
                /\ UNCHANGED recommendation_model
           [] outcome = "FileNotFoundError" ->
                /\ training' = [training EXCEPT !.pc = "train"]
                /\ UNCHANGED recommendation_model
           [] OTHER -> UseDummyModel
    /\ UNCHANGED <<destinations, rec_call, rec_result,
                   user_feedback, pc, req, responses, db_available,
                   user_preferences, user_visits, cache, svc, reply, served,
                   otherPrograms>>

NextStartup ==
    \/ MakeDirs
    \/ LoadRecommendationModel
    \/ LoadLocationClusters
    \/ LoadPreferenceVectorizer
    \/ FetchDestinations
    \/ FitVectorizer
    \/ InstallModel
    \/ SaveModels

SpecStartup == InitStartup /\ [][NextStartup]_vars

\* The shared model is a fitted content-based model or the fallback model.
ModelIsSet(model) ==
    \/ model = DummyRecommendationModel
    \/ /\ model.kind = "content"
       /\ model.destinations # <<>>
       /\ model.vectorizer.fitted
       /\ model.destination_vectors =
             Transform(model.vectorizer, DestinationTexts(model.destinations))

\* initialize_ml_models has returned and no training is in progress.
Initialized == training.pc = "idle"

\* C26: when initialize_ml_models returns, by whichever path (models loaded
\* from disk, trained, empty corpus, a load or a training that failed), the
\* shared recommendation model is a fitted content-based model or the
\* fallback model; and once the model is one of these, every later step
\* leaves it one of these.
C26_ModelSetAfterInitialize ==
    [][/\ Initialized' => ModelIsSet(recommendation_model')
       /\ ModelIsSet(recommendation_model) => ModelIsSet(recommendation_model')
      ]_vars

\* Returned with the model an earlier run saved: it is fitted on another
\* corpus than the one stored now, and nothing was trained.
C26_Witness ==
    /\ Initialized
    /\ training.runs = 0
    /\ recommendation_model.kind = "content"
    /\ recommendation_model.destinations # destinations

\* Returned after a successful training.
C26_Trained ==
    /\ Initialized /\ training.runs = 1
    /\ recommendation_model.kind = "content"
    /\ recommendation_model.destinations = destinations

\* Returned after training on an empty corpus.
C26_EmptyCorpus ==
    /\ Initialized /\ training.runs = 1 /\ destinations = <<>>
    /\ recommendation_model = DummyRecommendationModel

\* Returned after a load that failed, without training.
C26_LoadFailed ==
    /\ Initialized /\ training.runs = 0
    /\ recommendation_model = DummyRecommendationModel

\* Returned after a training that failed on a corpus that is not empty.
C26_TrainingFailed ==
    /\ Initialized /\ training.runs = 1 /\ destinations # <<>>
    /\ recommendation_model = DummyRecommendationModel

\* The sum of the popularity deltas of the feedback documents of bag B.
RECURSIVE DeltaOfBag(_)
DeltaOfBag(B) ==
    IF BagToSet(B) = {} THEN 0
    ELSE LET r == CHOOSE r \in BagToSet(B) : TRUE
         IN  B[r] * PopularityDelta(r.rating)
               + DeltaOfBag([s \in BagToSet(B) \ {r} |-> B[s]])

\* What has been added to the popularity of the destination stored at k.
AppliedDelta(k) ==
    destinations[k].popularity_score - InitialPopularity(destinations[k])

\* The deltas applied to the destination stored at k are those of feedback
\* documents that are in the feedback store, each document counted once.
DeltasHaveRecords(k) ==
    \E S \in SubBag(user_feedback) :
       /\ \A r \in BagToSet(S) : r.destination_id = destinations[k].id
       /\ DeltaOfBag(S) = AppliedDelta(k)

\* Task t ends its request with an error after it stored the document.
UpdateFails(t) ==
    /\ pc[t] = "update" /\ pc'[t] = "idle"
    /\ CopiesIn(Response(req[t], 500), responses')
         = CopiesIn(Response(req[t], 500), responses) + 1

\* C27: the feedback document is stored before the popularity delta is
\* applied: in every state the deltas applied to a destination are those of
\* documents present in user_feedback; the document of a task that goes on to
\* the update is in the store; no step removes a stored document, in
\* particular not the step in which the popularity update fails.
C27_StoredBeforeApplied ==
    /\ [](/\ \A k \in 1..Len(destinations) : DeltasHaveRecords(k)
          /\ \A t \in Tasks : pc[t] = "update" => CopiesIn(req[t], user_feedback) >= 1)
    /\ [][/\ user_feedback \sqsubseteq user_feedback'
          /\ \A t \in Tasks : UpdateFails(t) =>
                /\ user_feedback' = user_feedback
                /\ CopiesIn(req[t], user_feedback') >= 1
                /\ destinations' = destinations
         ]_vars

\* Two documents rating the first destination 5 are stored; the update of
\* one was applied and answered, the update of the other failed, and its
\* document is still in the store.
C27_Witness ==
    LET fb == [destination_id |-> IdPool[1], rating |-> 5]
    IN  /\ CopiesIn(fb, user_feedback) = 2
        /\ CopiesIn(Response(fb, 200), responses) = 1
        /\ CopiesIn(Response(fb, 500), responses) = 1
        /\ AppliedDelta(1) = 10

\* The user a recommendation request or a preference update is for.
UserOf(request) ==
    IF request.op = "preferences" THEN request.body.user_id ELSE request.user_id

\* The request task t works on in a step that takes it up, carries it on or
\* completes it.
RequestInStep(t) == IF svc[t].pc = "idle" THEN svc'[t].request ELSE svc[t].request

\* C28: every step a handler task takes for a recommendation request or a
\* preference update of user u leaves the stored profile and the cache entry
\* of every other user as they were; a recommendation request changes no
\* stored profile at all, and changes the cache only by writing the entry of
\* u; a preference update changes the profile of u and deletes the entry of u.
C28_OnlyOwnData ==
    [][\A t \in Tasks :
         svc'[t] # svc[t] =>
           LET request == RequestInStep(t)
               u == UserOf(request)
           IN /\ \A v \in Users \ {u} :
                   /\ user_preferences'[v] = user_preferences[v]
                   /\ cache'[v] = cache[v]
              /\ request.op = "recommendations" =>
                   /\ user_preferences' = user_preferences
                   /\ (cache'[u] # cache[u] => cache'[u] # NoEntry)
              /\ request.op = "preferences" =>
                   (cache'[u] # cache[u] => cache'[u] = NoEntry)
      ]_vars

\* An update for the first user has deleted the entry of the first user
\* while the second user has an entry, which is still there.
C28_Witness ==
    /\ Replied("preferences") /\ reply.status = 200
    /\ reply.request.body.user_id = "u1"
    /\ user_preferences["u1"] # NoProfile
    /\ user_preferences["u2"] = NoProfile
    /\ cache["u1"] = NoEntry
    /\ cache["u2"] # NoEntry

\* ------------------------------------------------------------------------
\* The live-data engine: the websocket feed and its connection manager.

\* active_connections.remove(websocket): the first occurrence is removed.
RECURSIVE Remove(_, _)
Remove(connections, websocket) ==
    IF connections = <<>> THEN <<>>
    ELSE IF Head(connections) = websocket THEN Tail(connections)
    ELSE <<Head(connections)>> \o Remove(Tail(connections), websocket)

\* ConnectionManager.disconnect.
Disconnect(websocket) ==
    active_connections' = Remove(active_connections, websocket)

InitLiveFeed ==
    /\ destinations = <<>>
    /\ recommendation_model = NoModel
    /\ rec_call = NoCall
    /\ rec_result = <<>>
    /\ NoFeedbackState
    /\ NoServiceState

\* websocket_live_feed to the end of manager.connect: the websocket is
\* accepted and appended; an accept that raises ends the handler before.
Connect(websocket) ==
    /\ feed[websocket].pc = "none"
    /\ \E accepted \in BOOLEAN :
         IF accepted
         THEN /\ active_connections' = Append(active_connections, websocket)
              /\ feed' = [feed EXCEPT ![websocket].pc = "loop"]
         ELSE /\ feed' = [feed EXCEPT ![websocket].pc = "ended",
                                      ![websocket].ended_by = "accept"]
              /\ UNCHANGED active_connections
    /\ UNCHANGED <<destinations, recommendation_model, rec_call, rec_result,
                   user_feedback, pc, req, responses, db_available, serviceVars,
                   log_file, status_file, clock>>

\* What one pass of the loop of websocket_live_feed comes to: a frame sent
\* and the sleep over, no location (the error is sent, break), a
\* WebSocketDisconnect raised, any other exception raised.
LoopOutcomes == {"frame", "break", "WebSocketDisconnect", "Exception"}

\* One pass of the loop of websocket_live_feed, with the except branch that
\* ends it.
LiveFeedLoop(websocket) ==
    /\ feed[websocket].pc = "loop"
    /\ \E outcome \in LoopOutcomes :
         CASE outcome = "frame" ->
                /\ feed[websocket].frames < MaxFrames
                /\ feed' = [feed EXCEPT ![websocket].frames = @ + 1]
                /\ UNCHANGED active_connections
           [] outcome = "WebSocketDisconnect" ->
                /\ Disconnect(websocket)
                /\ feed' = [feed EXCEPT ![websocket].pc = "ended",
                                        ![websocket].ended_by = outcome]
           [] OTHER ->
                /\ feed' = [feed EXCEPT ![websocket].pc = "ended",
                                        ![websocket].ended_by = outcome]
                /\ UNCHANGED active_connections
    /\ UNCHANGED <<destinations, recommendation_model, rec_call, rec_result,
                   user_feedback, pc, req, responses, db_available, serviceVars,
                   log_file, status_file, clock>>

NextLiveFeed ==
    \E websocket \in Sockets : Connect(websocket) \/ LiveFeedLoop(websocket)

SpecLiveFeed == InitLiveFeed /\ [][NextLiveFeed]_vars

\* The websocket is in manager.active_connections.
IsActive(websocket) ==
    \E i \in 1..Len(active_connections) : active_connections[i] = websocket

\* C29: no websocket whose handler has ended is in active_connections,
\* however the handler ended.
C29_EndedHandlersRemoved ==
    \A websocket \in Sockets : feed[websocket].pc = "ended" => ~IsActive(websocket)

\* A handler that ended on WebSocketDisconnect: its websocket was removed.
C29_RemovedOnDisconnect ==
    \E websocket \in Sockets :
       /\ feed[websocket].ended_by = "WebSocketDisconnect"
       /\ ~IsActive(websocket)
       /\ active_connections # <<>>

\* ------------------------------------------------------------------------
\* The pipeline tracker: log_event.

\* What callers pass to log_event: with details, without, with an empty dict.
EventInputs ==
    { [type |-> "INFO", message |-> "Latest commit",
       details |-> [given |-> TRUE, items |-> {"commit"}]],
      [type |-> "ERROR", message |-> "Timeout fetching workflow status",
       details |-> None],
      [type |-> "PROGRESS", message |-> "Starting comprehensive status check",
       details |-> EmptyDict] }

\* The inputs of the call made at time now: any of them for the first calls
\* and for the calls that fill the log and go past its cap; in between, calls
\* without details.
CallInputs(now) ==
    IF now <= 2 \/ now >= MaxEvents - 1 THEN EventInputs
    ELSE { i \in EventInputs : i.details = None }

\* The oldest events of a log that has grown past the cap.
FirstEvents(events) ==
    IF Len(events) > MaxEvents THEN SubSeq(events, 1, MaxEvents) ELSE events

\* events[-100:] when there are more than 100.
LastEvents(events) ==
    IF Len(events) > MaxEvents
    THEN SubSeq(events, Len(events) - MaxEvents + 1, Len(events))
    ELSE events

InitTracker ==
    /\ destinations = <<>>
    /\ recommendation_model = NoModel
    /\ rec_call = NoCall
    /\ rec_result = <<>>
    /\ NoFeedbackState
    /\ NoServiceState

\* log_event(event_type, message, details): the log is read, the event
\* appended, the log cut to its last 100 events and written, the status
\* file rewritten.
LogEvent ==
    /\ clock <= MaxLogged
    /\ \E input \in CallInputs(clock) :
         LET event_type == input.type
             message == input.message
             details == input.details
             event == Event(clock, event_type, message, details)
         IN  /\ log_file' = [log_file EXCEPT
                                !.events = LastEvents(Append(@, event))]
             /\ status_file' = CurrentStatus(clock, event_type, message, details)
    /\ clock' = clock + 1
    /\ UNCHANGED <<destinations, recommendation_model, rec_call, rec_result,
                   user_feedback, pc, req, responses, db_available, serviceVars,
                   active_connections, feed>>

NextTracker == LogEvent

SpecTracker == InitTracker /\ [][NextTracker]_vars

\* The newest event of the log.
Newest == log_file.events[Len(log_file.events)]

\* The status file describes the event: its type, its message and its
\* details (no details are None in the status and an empty dict in the log).
Describes(status, event) ==
    /\ status.current_event.type = event.type
    /\ status.current_event.message = event.message
    /\ status.current_event.details.items = event.details.items

\* C30: after any sequence of log_event calls the log holds at most 100
\* events; they are the events logged last, one per tick up to the newest,
\* oldest first; the status file describes the newest; and a call leaves the
\* events it keeps as they were, in their order, behind which it puts its own.
C30_LastHundredNewestLast ==
    /\ [](LET events == log_file.events
          IN /\ Len(events) <= 100
             /\ Len(events) = Min(clock, 100)
             /\ \A i \in 1..Len(events) : events[i].timestamp = clock - Len(events) + i - 1
             /\ Describes(status_file, Newest))
    /\ [][LET old == log_file.events
              new == log_file'.events
          IN /\ Len(new) = Min(Len(old) + 1, 100)
             /\ \A i \in 1..(Len(new) - 1) : new[i] = old[Len(old) - (Len(new) - 1) + i]
             /\ new[Len(new)].timestamp = clock
             /\ new[Len(new)].type = status_file'.current_event.type
         ]_vars

\* The log has been cut twice: it holds 100 events, the oldest logged at
\* tick 2, and the status file describes the newest, logged with details.
C30_Witness ==
    /\ Len(log_file.events) = 100
    /\ log_file.events[1].timestamp = 2
    /\ Newest.timestamp = 101
    /\ Newest.details.items # {}
    /\ status_file.current_event.details = Newest.details

====
